---------------------------- MODULE Spec2Model ----------------------------
(***************************************************************************)
(* Voice generation tool: the conversation scheduler (ConversationManager, *)
(* CharacterManager) and the voice engine (VoiceEngine), as state machines.*)
(*                                                                         *)
(* Times are integer milliseconds.  Word counts are drawn from multiples   *)
(* of three so that (wordCount / 3) * 1000 is exact, and speed modifiers   *)
(* are carried in percent (50 = 0.5, 200 = 2.0) so that the division by    *)
(* the modifier is exact.  An optional number that is absent (undefined)   *)
(* is Undefined.                                                           *)
(***************************************************************************)
EXTENDS Integers, Sequences, FiniteSets, TLC

VARIABLES
    \* ---- processDialogueTiming, one loop iteration per step
    dialogue,        \* the dialogue array handed to processDialogueTiming
    processed,       \* the (shallow) copy whose line objects are timed in place
    idx,             \* the loop index i (1-based); Len(processed)+1 when the loop is over
    currentTime,     \* the cursor
    \* ---- ConversationManager.generateConversation
    characters,      \* CharacterManager.characters: the ids registered in the manager
    cpc,             \* position of the generateConversation call
    request,         \* the ConversationConfig of the call in progress
    processedDialogue, \* the dialogue after processDialogueTiming
    pending,         \* line indices still to be synthesized, in call order
    calls,           \* provider calls made so far: <<line index, outcome>>
    result,          \* what the call returned (or that it rejected)
    \* ---- VoiceEngine
    configured,      \* the providers whose API key is set in the environment
    providers,       \* VoiceEngine.providers: name -> registered instance (0: none)
    initialized,     \* VoiceEngine.initialized
    initRuns,        \* per provider, how many times its initialize() was started
    initOk,          \* the providers whose initialize() has resolved so far
    tasks,           \* the calls in flight on the engine, one per caller
    \* ---- EmotionTransitionEngine.processEmotionTransitions
    text,            \* the text, as its words (split at white space)
    transitions,     \* the EmotionTransition[] argument
    defaultEmotion,  \* the EmotionProfile argument
    timeline,        \* the keyframes of the timeline (<<>>: not built yet)
    emotionSegments, \* generateEmotionSegments: the segments pushed so far
    wordTime,        \* generateEmotionSegments: its currentTime
    \* ---- AudioMixer.mixConversation
    tracks,          \* the AudioTrackResult[] argument
    mixTimeline,     \* the ConversationTimeline argument
    options,         \* the MixingOptions argument
    mpc,             \* position of the mixConversation call
    mixBuffer,       \* the mix buffer, one 16-bit sample per frame
    mixedSegments,   \* how many segments have been mixed into the buffer
    volume,          \* mixTrackIntoBuffer: the volume of the last segment
    finalBuffer,     \* mixConversation: finalBuffer
    \* ---- SubtitleReader
    content,         \* the subtitle file being parsed, as its lines
    format,          \* what detectSubtitleFormat said: "srt" or "vtt"
    spc,             \* position of the reader
    subPos,          \* the next block (parseSRT) or line (parseVTT) of the loop
    cue,             \* parseVTT: index, inCue, cueText, startTime, endTime
    entries,         \* the SubtitleEntry[] built so far
    sourceEntries,   \* the entries of the track that was exported, <<>> before
    \* ---- parseVoicePrompt
    prompt,          \* the prompt argument, a string
    ppc,             \* position of the parseVoicePrompt call
    characteristics, \* the VoiceCharacteristics returned
    \* ---- processDialogueTiming, called again on the same dialogue array
    run,             \* which call of processDialogueTiming is in progress (0: a single call)
    firstRun,        \* the lines as the first call returned them
    \* ---- CharacterManager
    characterMap,    \* CharacterManager.characters: the Map from id to character
    previous,        \* the Map as it was before the last operation
    lastOp,          \* the last operation on the manager and whether it threw
    opCount,         \* how many operations have been called on the manager
    \* ---- AudioProcessor.process, two calls on one processor
    clock,           \* Date.now(), in milliseconds
    files,           \* the files of tempDir: path -> content
    jobs,            \* the process() calls: position, paths, options.format, outcome
    \* ---- ConversationManager.generateFromScript
    script,          \* the script argument, as its lines: who speaks and how many words
    gpc              \* position of the generateFromScript call

timingVars == <<dialogue, processed, idx, currentTime>>
convVars == <<characters, cpc, request, processedDialogue, pending, calls, result>>
engineVars == <<configured, providers, initialized, initRuns, initOk, tasks>>
emotionVars == <<text, transitions, defaultEmotion, timeline, emotionSegments, wordTime>>
mixerVars == <<tracks, mixTimeline, options, mpc, mixBuffer, mixedSegments, volume, finalBuffer>>
subtitleVars == <<content, format, spc, subPos, cue, entries, sourceEntries>>
promptVars == <<prompt, ppc, characteristics>>
rerunVars == <<run, firstRun>>
registryVars == <<characterMap, previous, lastOp, opCount>>
processorVars == <<clock, files, jobs>>
scriptVars == <<script, gpc>>
vars == <<timingVars, convVars, engineVars, emotionVars, mixerVars, subtitleVars, promptVars, rerunVars, registryVars, processorVars, scriptVars>>

Undefined == -1

\* ------------------------------------------------------------------ bounds
MaxLines == 2
\* callers that use one engine at the same time
NumTasks == 2
\* requests in one generateBatch call
MaxBatch == 2

\* ConversationGlobalSettings.pauseBetweenLines, as generateFromScript sets it
PauseBetweenLines == 500

WordCounts == {3, 6}
PauseBeforeValues == {Undefined, 0, 300}
PauseAfterValues == {Undefined, 200}
SpeedValues == {Undefined, 50, 200}
OverlapStarts == {1000}
OverlapDurations == {400}
\* an id that no line of any plan carries
MissingLine == MaxLines + 1

NoOverlap ==
    [present |-> FALSE, enabled |-> FALSE, targetLineId |-> Undefined,
     overlapStart |-> 0, overlapDuration |-> 0]

OverlapOn(target) ==
    [present |-> TRUE, enabled |-> TRUE, targetLineId |-> target,
     overlapStart |-> CHOOSE x \in OverlapStarts : TRUE,
     overlapDuration |-> CHOOSE x \in OverlapDurations : TRUE]

\* a DialogueLine as a caller supplies it: the i-th line has id i; startTime is
\* required by the interface and is filled as generateFromScript fills it
InputLine(i, ch, wc, pb, pa, sp, et, ov, tr) ==
    [id |-> i, characterId |-> ch, wordCount |-> wc,
     startTime |-> (i - 1) * 3000, endTime |-> et,
     pauseBefore |-> pb, pauseAfter |-> pa, speedModifier |-> sp,
     overlap |-> ov, transitions |-> tr]

\* all sequences of length n whose i-th element is drawn from Options(i)
SeqsOver(n, Options(_)) ==
    LET build[k \in 0..n] ==
            IF k = 0 THEN {<<>>}
            ELSE {Append(s, x) : s \in build[k - 1], x \in Options(k)}
    IN  build[n]

\* ------------------------------------------------- processDialogueTiming

\* const estimatedDuration = (wordCount / 3) * 1000
EstimatedDuration(wordCount) == (wordCount * 1000) \div 3

\* processed.find(l => l.id === targetLineId): the first line with that id, 0 if none
FindLine(lines, targetLineId) ==
    IF \E k \in 1..Len(lines) : lines[k].id = targetLineId
    THEN CHOOSE k \in 1..Len(lines) :
            /\ lines[k].id = targetLineId
            /\ \A m \in 1..(k - 1) : lines[m].id # targetLineId
    ELSE 0

\* JavaScript truthiness of an optional number
Truthy(x) == x # Undefined /\ x # 0

\* (mutant) the overlap is measured from the end of the target line
OverlapStartTimeFromEnd(lines, i) ==
    LET line == lines[i]
        t == FindLine(lines, line.overlap.targetLineId)
    IN  IF line.overlap.present /\ line.overlap.enabled /\ t # 0
           /\ Truthy(lines[t].endTime)
        THEN lines[t].endTime + line.overlap.overlapStart
        ELSE line.startTime

\* the overlap branch of the loop body: the start of line i after it
OverlapStartTime(lines, i) ==
    LET line == lines[i]
        t == FindLine(lines, line.overlap.targetLineId)
    IN  IF /\ line.overlap.present
           /\ line.overlap.enabled
           /\ line.overlap.targetLineId # Undefined
           /\ t # 0
           /\ Truthy(lines[t].endTime)
        THEN lines[t].startTime + line.overlap.overlapStart
        ELSE line.startTime

\* (mutant) the cursor forgets the pause after the line
NextCurrentTimeNoPause(line) == line.endTime

\* where the cursor goes after line i: endTime + (pauseAfter || 0)
NextCurrentTime(line) ==
    line.endTime + (IF Truthy(line.pauseAfter) THEN line.pauseAfter ELSE 0)

\* the body of the for loop for index i: the lines after it (line i timed in place)
TimeLine(lines, i, cursor) ==
    LET line == lines[i]
        estimatedDuration == EstimatedDuration(line.wordCount)
        pauseBefore ==
            IF line.pauseBefore = Undefined
            THEN (IF i = 1 THEN 0 ELSE PauseBetweenLines)
            ELSE line.pauseBefore
        startTime == cursor + pauseBefore
        endTime ==
            IF Truthy(line.speedModifier)
            THEN startTime + (estimatedDuration * 100) \div line.speedModifier
            ELSE startTime + estimatedDuration
        timed == [lines EXCEPT ![i].pauseBefore = pauseBefore,
                               ![i].startTime = startTime,
                               ![i].endTime = endTime]
    IN  [timed EXCEPT ![i].startTime = OverlapStartTime(timed, i)]

RECURSIVE TimingLoop(_, _, _)
\* the whole loop from index i on
TimingLoop(lines, i, cursor) ==
    IF i > Len(lines) THEN lines
    ELSE LET after == TimeLine(lines, i, cursor)
         IN  TimingLoop(after, i + 1, NextCurrentTime(after[i]))

ProcessDialogueTiming(lines) == TimingLoop(lines, 1, 0)

\* ---- inputs of the timing specification
\* lines without overlap: every combination of the timing fields
PlainLines(i) ==
    {InputLine(i, "alice", wc, pb, pa, sp, Undefined, NoOverlap, <<>>) :
        wc \in WordCounts, pb \in PauseBeforeValues,
        pa \in PauseAfterValues, sp \in SpeedValues}

\* lines that may overlap any line of the plan (an earlier one, themselves, a
\* later one), and may come with an endTime already filled in
OverlapLines(n, i) ==
    {InputLine(i, "alice", wc, pb, Undefined, Undefined, et, ov, <<>>) :
        wc \in WordCounts, pb \in {Undefined, 300}, et \in {Undefined, 9000},
        ov \in {NoOverlap} \cup {OverlapOn(t) : t \in 1..n}}

\* the dialogues of n lines that processDialogueTiming is run on: without
\* overlaps, or with lines that may overlap
TimingDialogues(n, overlaps) ==
    IF overlaps THEN (LET O(i) == OverlapLines(n, i) IN SeqsOver(n, O))
    ELSE SeqsOver(n, PlainLines)

ProviderNames == {"elevenlabs", "openai"}
Tasks == 1..NumTasks

\* a caller that has not called the engine yet
IdleTask ==
    [op |-> "none", pc |-> "idle", requests |-> <<>>, i |-> 1, seg |-> 0,
     sel |-> "none", inst |-> 0, el |-> "none", oa |-> "none",
     results |-> <<>>, outcomes |-> <<>>, status |-> "none"]

\* a VoiceEngine after its constructor, when no key is configured
EngineIdle ==
    /\ configured = {}
    /\ providers = [p \in ProviderNames |-> 0]
    /\ initialized = FALSE
    /\ initRuns = [p \in ProviderNames |-> 0]
    /\ initOk = {}
    /\ tasks = [t \in Tasks |-> IdleTask]

\* the VTT loop locals before the loop
NoCue == [index |-> 0, inCue |-> FALSE, cueText |-> <<>>, startTime |-> 0, endTime |-> 0]

\* the call has returned nothing yet
NoCharacteristics ==
    [gender |-> "none", age |-> "none", accent |-> "none", personality |-> <<>>,
     defaultEmotion |-> "none", timbre |-> "none", pace |-> "none"]

\* no operation yet
NoOp == [op |-> "none", id |-> "", threw |-> FALSE, inUse |-> FALSE]

\* generateFromScript has not been called
ScriptIdle ==
    /\ script = <<>>
    /\ gpc = "idle"

\* an AudioProcessor on which process() has not been called
ProcessorIdle ==
    /\ clock = 0
    /\ files = <<>>
    /\ jobs = <<>>

\* a CharacterManager nobody has called
RegistryIdle ==
    /\ characterMap = <<>>
    /\ previous = <<>>
    /\ lastOp = NoOp
    /\ opCount = 0

\* processDialogueTiming is called once
RerunIdle ==
    /\ run = 0
    /\ firstRun = <<>>

\* no prompt has been handed to parseVoicePrompt
PromptIdle ==
    /\ prompt = <<>>
    /\ ppc = "idle"
    /\ characteristics = NoCharacteristics

\* a SubtitleReader that has not been asked to parse
SubtitleIdle ==
    /\ content = <<>>
    /\ format = "none"
    /\ spc = "idle"
    /\ subPos = 1
    /\ cue = NoCue
    /\ entries = <<>>
    /\ sourceEntries = <<>>

\* an AudioMixer on which mixConversation has not been called
MixerIdle ==
    /\ tracks = <<>>
    /\ mixTimeline = <<>>
    /\ options = <<>>
    /\ mpc = "idle"
    /\ mixBuffer = <<>>
    /\ mixedSegments = 0
    /\ volume = [num |-> 1, den |-> 1]
    /\ finalBuffer = <<>>

\* no processEmotionTransitions call
EmotionIdle ==
    /\ text = <<>>
    /\ transitions = <<>>
    /\ defaultEmotion = [type |-> "neutral", intensity |-> [num |-> 1, den |-> 2]]
    /\ timeline = <<>>
    /\ emotionSegments = <<>>
    /\ wordTime = 0

ConvIdle ==
    /\ characters = {}
    /\ cpc = "idle"
    /\ request = [characters |-> <<>>, dialogue |-> <<>>]
    /\ processedDialogue = <<>>
    /\ pending = <<>>
    /\ calls = <<>>
    /\ result = [status |-> "none"]

TimingInit ==
    /\ \E n \in 1..MaxLines, overlaps \in BOOLEAN :
          dialogue \in TimingDialogues(n, overlaps)
    /\ processed = dialogue
    /\ idx = 1
    /\ currentTime = 0
    /\ ConvIdle
    /\ EngineIdle
    /\ EmotionIdle
    /\ MixerIdle
    /\ SubtitleIdle
    /\ PromptIdle
    /\ RerunIdle
    /\ RegistryIdle
    /\ ProcessorIdle
    /\ ScriptIdle

\* one iteration of the for loop of processDialogueTiming
TimingStep ==
    /\ idx <= Len(processed)
    /\ processed' = TimeLine(processed, idx, currentTime)
    /\ currentTime' = NextCurrentTime(processed'[idx])
    /\ idx' = idx + 1
    /\ UNCHANGED <<dialogue, convVars, engineVars, emotionVars, mixerVars, subtitleVars, promptVars, rerunVars, registryVars, processorVars, scriptVars>>

TimingNext == TimingStep

TimingSpec == TimingInit /\ [][TimingNext]_vars

TimingDone == idx = Len(processed) + 1

\* ------------------------------------------- ConversationManager: helpers

CharacterIds == {"alice", "bob"}
\* a character id that no plan declares
UnknownCharacter == "ghost"

\* config.characters, as lists of ids (a character's name, voice profile and
\* personality are always supplied, so validateCharacter's other checks pass)
CharacterLists ==
    {<<>>, <<"alice">>, <<"alice", "bob">>, <<"bob", "alice">>, <<"alice", "alice">>}

OverlapOff(target) == [OverlapOn(target) EXCEPT !.enabled = FALSE]

Range(seq) == {seq[k] : k \in 1..Len(seq)}

\* (mutant) validation that does not look at overlap targets
ValidateWithoutOverlapCheck(config) ==
    IF Len(config.characters) = 0 THEN "no_characters"
    ELSE IF Len(config.dialogue) = 0 THEN "no_dialogue"
    ELSE IF \E k \in 1..Len(config.dialogue) :
                config.dialogue[k].characterId \notin Range(config.characters)
         THEN "unknown_character"
    ELSE "ok"

\* validateConversationConfig: "ok", or the error it throws
ValidateConversationConfig(config) ==
    IF Len(config.characters) = 0 THEN "no_characters"
    ELSE IF Len(config.dialogue) = 0 THEN "no_dialogue"
    ELSE IF \E k \in 1..Len(config.dialogue) :
                config.dialogue[k].characterId \notin Range(config.characters)
         THEN "unknown_character"
    ELSE IF \E k \in 1..Len(config.dialogue) :
                /\ config.dialogue[k].overlap.present
                /\ config.dialogue[k].overlap.targetLineId # Undefined
                /\ config.dialogue[k].overlap.targetLineId
                      \notin {config.dialogue[m].id : m \in 1..Len(config.dialogue)}
         THEN "overlap_target"
    ELSE "ok"

RECURSIVE InitializeCharacters(_, _, _)
\* CharacterManager.initializeCharacters from the k-th character on: addCharacter
\* validates (the id must not be registered yet) and stores, one by one; the
\* characters stored before a throw stay stored
InitializeCharacters(registry, chars, k) ==
    IF k > Len(chars) THEN [characters |-> registry, error |-> "ok"]
    ELSE IF chars[k] \in registry
         THEN [characters |-> registry, error |-> "character_exists"]
    ELSE InitializeCharacters(registry \cup {chars[k]}, chars, k + 1)

RECURSIVE SynthesisOrder(_, _)
\* generateCharacterAudioTracks: the order of the generateVoice calls: character
\* by character in config order, each character's lines in dialogue order
SynthesisOrder(lines, chars) ==
    IF chars = <<>> THEN <<>>
    ELSE SelectSeq([k \in 1..Len(lines) |-> k],
                   LAMBDA k : lines[k].characterId = Head(chars))
         \o SynthesisOrder(lines, Tail(chars))

\* line.timing.endTime || line.timing.startTime + 3000
EndTimeOf(line) ==
    IF Truthy(line.endTime) THEN line.endTime ELSE line.startTime + 3000

Max(a, b) == IF a >= b THEN a ELSE b

RECURSIVE MaxEnd(_)
MaxEnd(segs) ==
    IF segs = <<>> THEN 0 ELSE Max(MaxEnd(Tail(segs)), Head(segs).endTime)

\* the buffer a resolved generateVoice call hands back (its length is the
\* provider's business)
Speech == [kind |-> "speech", ms |-> Undefined]

\* the segment pushed for a synthesized line
Segment(line, audioBuffer) ==
    [lineId |-> line.id, startTime |-> line.startTime,
     endTime |-> EndTimeOf(line), audioBuffer |-> audioBuffer]

RECURSIVE AudioTracks(_, _, _)
\* the tracks of generateCharacterAudioTracks once every call has resolved:
\* one per character that has lines, in config order
AudioTracks(lines, chars, buffers) ==
    IF chars = <<>> THEN <<>>
    ELSE LET mine == SelectSeq([k \in 1..Len(lines) |-> k],
                               LAMBDA k : lines[k].characterId = Head(chars))
             segs == [j \in 1..Len(mine) |-> Segment(lines[mine[j]], buffers[mine[j]])]
             rest == AudioTracks(lines, Tail(chars), buffers)
         IN  IF mine = <<>> THEN rest
             ELSE <<[characterId |-> Head(chars), segments |-> segs,
                     totalDuration |-> MaxEnd(segs)]>> \o rest

Event(time, type, line) ==
    [time |-> time, type |-> type, characterId |-> line.characterId, lineId |-> line.id]

\* the events createConversationTimeline pushes for one line, in push order;
\* a transition is carried as its triggers.time (Undefined when it has none)
LineEvents(line) ==
    <<Event(line.startTime, "line_start", line),
      Event(EndTimeOf(line), "line_end", line)>>
    \o [j \in 1..Len(line.transitions) |->
          Event(line.startTime
                  + (IF Truthy(line.transitions[j]) THEN line.transitions[j] ELSE 0),
                "emotion_change", line)]
    \o (IF line.overlap.present /\ line.overlap.enabled
        THEN <<Event(line.startTime, "overlap_start", line),
               Event(line.startTime + line.overlap.overlapDuration, "overlap_end", line)>>
        ELSE <<>>)

RECURSIVE PushedEvents(_)
PushedEvents(lines) ==
    IF lines = <<>> THEN <<>> ELSE LineEvents(Head(lines)) \o PushedEvents(Tail(lines))

RECURSIVE InsertByTime(_, _)
InsertByTime(sorted, e) ==
    IF sorted = <<>> THEN <<e>>
    ELSE IF sorted[Len(sorted)].time <= e.time THEN Append(sorted, e)
    ELSE Append(InsertByTime(SubSeq(sorted, 1, Len(sorted) - 1), e), sorted[Len(sorted)])

RECURSIVE StableSort(_, _)
StableSort(events, k) ==
    IF k = 0 THEN <<>> ELSE InsertByTime(StableSort(events, k - 1), events[k])

\* (mutant) the events are left in push order
SortEventsNot(events) == events

\* events.sort((a, b) => a.time - b.time): Array.prototype.sort is stable
SortEvents(events) == StableSort(events, Len(events))

RECURSIVE MaxEndTime(_)
MaxEndTime(lines) ==
    IF lines = <<>> THEN 0 ELSE Max(MaxEndTime(Tail(lines)), EndTimeOf(Head(lines)))

\* createConversationTimeline
CreateConversationTimeline(lines) ==
    [totalDuration |-> MaxEndTime(lines), events |-> SortEvents(PushedEvents(lines))]

\* generateConversation up to its first generateVoice call, on a manager whose
\* registry is `registry`: validation, character initialization, line timing
AcceptRequest(registry, config) ==
    LET v == ValidateConversationConfig(config)
        init == InitializeCharacters(registry, config.characters, 1)
    IN  IF v # "ok"
        THEN [cpc |-> "returned", characters |-> registry,
              processedDialogue |-> <<>>, pending |-> <<>>,
              result |-> [status |-> "rejected", error |-> v]]
        ELSE IF init.error # "ok"
        THEN [cpc |-> "returned", characters |-> init.characters,
              processedDialogue |-> <<>>, pending |-> <<>>,
              result |-> [status |-> "rejected", error |-> init.error]]
        ELSE [cpc |-> "synth", characters |-> init.characters,
              processedDialogue |-> ProcessDialogueTiming(config.dialogue),
              pending |-> SynthesisOrder(config.dialogue, config.characters),
              result |-> [status |-> "none"]]

\* ---- the plans a caller submits
\* the line that line i may overlap: the first line, or the second for the first
OtherLine(i) == IF i = 1 THEN 2 ELSE 1

\* plans that exercise validation: any character list, lines of known and
\* unknown characters, overlaps whose target exists or not
ValidationLines(i) ==
    {InputLine(i, ch, 3, Undefined, Undefined, Undefined, Undefined, ov, <<>>) :
        ch \in CharacterIds \cup {UnknownCharacter},
        ov \in {NoOverlap, OverlapOn(OtherLine(i)), OverlapOn(MissingLine),
                OverlapOff(MissingLine)}}

\* plans that exercise the timeline: two characters, lines that follow each
\* other with or without a pause, overlaps, emotion transitions
TimelineLines(i) ==
    {InputLine(i, ch, 3, pb, Undefined, Undefined, Undefined, ov, tr) :
        ch \in CharacterIds, pb \in {Undefined, 0},
        ov \in {NoOverlap, OverlapOn(OtherLine(i))}, tr \in {<<>>, <<Undefined>>, <<500>>}}

\* the requests with a dialogue of n lines
ConversationConfigs(n) ==
    {[characters |-> cs, dialogue |-> d] :
        cs \in CharacterLists, d \in SeqsOver(n, ValidationLines)}
    \cup
    {[characters |-> <<"alice", "bob">>, dialogue |-> d] :
        d \in SeqsOver(n, TimelineLines)}

\* --------------------------------------------- ConversationManager: steps

ConvInit ==
    /\ ConvIdle
    /\ EngineIdle
    /\ EmotionIdle
    /\ MixerIdle
    /\ SubtitleIdle
    /\ PromptIdle
    /\ RerunIdle
    /\ RegistryIdle
    /\ ProcessorIdle
    /\ ScriptIdle
    /\ dialogue = <<>>
    /\ processed = <<>>
    /\ idx = 1
    /\ currentTime = 0

\* generateConversation(request) is called and runs to its first await of
\* voiceEngine.generateVoice, or rejects before it
GenerateConversation ==
    /\ cpc = "idle"
    /\ \E n \in 0..MaxLines : \E config \in ConversationConfigs(n) :
         LET a == AcceptRequest(characters, config)
         IN  /\ request' = config
             /\ cpc' = a.cpc
             /\ characters' = a.characters
             /\ processedDialogue' = a.processedDialogue
             /\ pending' = a.pending
             /\ result' = a.result
    /\ calls' = <<>>
    /\ UNCHANGED <<timingVars, engineVars, emotionVars, mixerVars, subtitleVars, promptVars, rerunVars, registryVars, processorVars, scriptVars>>

\* the awaited generateVoice call for the next line resolves; after the last
\* one the tracks and the timeline are built and the result is returned
LineSynthesized ==
    /\ cpc = "synth"
    /\ pending # <<>>
    /\ calls' = Append(calls, <<Head(pending), "ok">>)
    /\ pending' = Tail(pending)
    /\ IF Tail(pending) = <<>>
       THEN /\ cpc' = "returned"
            /\ result' =
                 [status |-> "ok",
                  audioTracks |->
                      AudioTracks(processedDialogue, request.characters,
                                  [k \in 1..Len(processedDialogue) |-> Speech]),
                  timeline |-> CreateConversationTimeline(processedDialogue)]
       ELSE UNCHANGED <<cpc, result>>
    /\ UNCHANGED <<characters, request, processedDialogue, timingVars, engineVars, emotionVars, mixerVars, subtitleVars, promptVars, rerunVars, registryVars, processorVars, scriptVars>>

\* the awaited generateVoice call for the next line rejects: nothing catches
\* it, so generateConversation rejects with it
LineSynthesisFails ==
    /\ cpc = "synth"
    /\ pending # <<>>
    /\ calls' = Append(calls, <<Head(pending), "throw">>)
    /\ cpc' = "returned"
    /\ result' = [status |-> "rejected", error |-> "synthesis_failed"]
    /\ UNCHANGED <<characters, request, processedDialogue, pending, timingVars, engineVars, emotionVars, mixerVars, subtitleVars, promptVars, rerunVars, registryVars, processorVars, scriptVars>>

\* the caller has the outcome; the manager is ready for the next call
CallerResumes ==
    /\ cpc = "returned"
    /\ cpc' = "idle"
    /\ request' = [characters |-> <<>>, dialogue |-> <<>>]
    /\ processedDialogue' = <<>>
    /\ pending' = <<>>
    /\ calls' = <<>>
    /\ result' = [status |-> "none"]
    /\ UNCHANGED <<characters, timingVars, engineVars, emotionVars, mixerVars, subtitleVars, promptVars, rerunVars, registryVars, processorVars, scriptVars>>

ConvNext ==
    \/ GenerateConversation
    \/ LineSynthesized
    \/ LineSynthesisFails
    \/ CallerResumes

ConvSpec == ConvInit /\ [][ConvNext]_vars

\* ------------------------------------------------------------ VoiceEngine

\* a GenerationRequest: the provider id of its voiceProfile ("none" without a
\* profile), whether modulation.emotion is set, and the number of segments
\* its emotionTransitions are cut into (0 without transitions)
Request(provider, emotion, segments) ==
    [provider |-> provider, emotion |-> emotion, segments |-> segments]

VoiceRequests ==
    {Request(p, e, 0) : p \in ProviderNames \cup {"none"}, e \in BOOLEAN}
    \cup {Request("openai", FALSE, 2)}

BatchRequests == VoiceRequests

\* the request lists of length n
Batches(n) == LET R(i) == BatchRequests IN SeqsOver(n, R)

\* Buffer.alloc(0)
EmptyBuffer == [kind |-> "empty", provider |-> "none", request |-> Request("none", FALSE, 0)]

\* the processed audio of a request, as the provider that spoke it returned it
Audio(provider, req) == [kind |-> "audio", provider |-> provider, request |-> req]

Registered(provs, p) == p \in ProviderNames /\ provs[p] # 0

\* (mutant) the emotion rule is consulted before the request's own provider
SelectProviderEmotionFirst(provs, req, emotion) ==
    IF emotion /\ Registered(provs, "elevenlabs") THEN "elevenlabs"
    ELSE IF req.provider # "none" /\ Registered(provs, req.provider) THEN req.provider
    ELSE IF Registered(provs, "elevenlabs") THEN "elevenlabs"
    ELSE IF Registered(provs, "openai") THEN "openai"
    ELSE "none"

\* selectProvider: the provider's name, "none" when it throws
SelectProvider(provs, req, emotion) ==
    IF req.provider # "none" /\ Registered(provs, req.provider) THEN req.provider
    ELSE IF emotion /\ Registered(provs, "elevenlabs") THEN "elevenlabs"
    ELSE IF Registered(provs, "elevenlabs") THEN "elevenlabs"
    ELSE IF Registered(provs, "openai") THEN "openai"
    ELSE "none"

\* (mutant) the catch of generateBatch pushes nothing
BatchCatchSkip(results) == results

\* generateBatch's catch: results.push(Buffer.alloc(0))
BatchCatch(results) == Append(results, EmptyBuffer)

\* (mutant) a provider is registered although its initialize() rejected
AfterInitRejectsRegister(provs, p, inst) == [provs EXCEPT ![p] = inst]

\* the catch of a provider's initialize() in VoiceEngine.initialize: a warning
AfterInitRejects(provs, p, inst) == provs

\* the generateVoice call of the task's current request is over, with "ok" or
\* with the error it threw; the locals of the call are gone
Concluded(tk, outcome, buffer) ==
    IF tk.op = "generateBatch"
    THEN LET next == tk.i + 1
         IN  [tk EXCEPT
                !.results = IF outcome = "ok" THEN Append(@, buffer) ELSE BatchCatch(@),
                !.outcomes = Append(@, outcome),
                !.i = next, !.seg = 0, !.sel = "none", !.inst = 0,
                !.el = "none", !.oa = "none",
                !.pc = IF next > Len(tk.requests) THEN "done" ELSE "initialize",
                !.status = IF next > Len(tk.requests) THEN "ok" ELSE @]
    ELSE [IdleTask EXCEPT !.op = tk.op, !.pc = "done", !.status = outcome]

\* initialize() threw: 'No voice providers are available'
InitializeThrew(tk) ==
    IF tk.op = "generateBatch"
    THEN Concluded(tk, "no_providers", EmptyBuffer)
    ELSE [tk EXCEPT !.pc = "done", !.status = "no_providers", !.inst = 0]

\* the end of initialize(): throw when the map is empty, else set the flag
NoProvider(provs) == \A p \in ProviderNames : provs[p] = 0

EngineInit ==
    /\ configured \in SUBSET ProviderNames
    /\ providers = [p \in ProviderNames |-> 0]
    /\ initialized = FALSE
    /\ initRuns = [p \in ProviderNames |-> 0]
    /\ initOk = {}
    /\ tasks = [t \in Tasks |-> IdleTask]
    /\ ConvIdle
    /\ EmotionIdle
    /\ MixerIdle
    /\ SubtitleIdle
    /\ PromptIdle
    /\ RerunIdle
    /\ RegistryIdle
    /\ ProcessorIdle
    /\ ScriptIdle
    /\ dialogue = <<>>
    /\ processed = <<>>
    /\ idx = 1
    /\ currentTime = 0

\* initialize() is entered by the call tk: it returns at once when the flag is
\* set, else it runs up to its first await (the first configured provider's
\* initialize()), or to its end when no key is configured
InitializeStart(t, tk) ==
    /\ IF initialized
       THEN /\ tasks' = [tasks EXCEPT ![t] = [tk EXCEPT !.pc = "ready"]]
            /\ UNCHANGED <<initRuns, initialized>>
       ELSE IF "elevenlabs" \in configured
       THEN /\ initRuns' = [initRuns EXCEPT !["elevenlabs"] = @ + 1]
            /\ tasks' = [tasks EXCEPT ![t] =
                          [tk EXCEPT !.pc = "await_elevenlabs",
                                     !.inst = initRuns'["elevenlabs"]]]
            /\ UNCHANGED initialized
       ELSE IF "openai" \in configured
       THEN /\ initRuns' = [initRuns EXCEPT !["openai"] = @ + 1]
            /\ tasks' = [tasks EXCEPT ![t] =
                          [tk EXCEPT !.pc = "await_openai",
                                     !.inst = initRuns'["openai"]]]
            /\ UNCHANGED initialized
       ELSE IF NoProvider(providers)
       THEN /\ tasks' = [tasks EXCEPT ![t] = InitializeThrew(tk)]
            /\ UNCHANGED <<initRuns, initialized>>
       ELSE /\ initialized' = TRUE
            /\ tasks' = [tasks EXCEPT ![t] = [tk EXCEPT !.pc = "ready"]]
            /\ UNCHANGED initRuns
    /\ UNCHANGED <<configured, providers, initOk>>
    /\ UNCHANGED <<timingVars, convVars, emotionVars, mixerVars, subtitleVars, promptVars, rerunVars, registryVars, processorVars, scriptVars>>

\* a caller calls initialize(), generateVoice(request), listAvailableVoices() or
\* getProviderCapabilities(); callers are numbered in the order of their calls.
\* The call runs without a break into initialize(), up to the first await.
\* The request of generateVoice is first read after the await of initialize():
\* it enters the state there (Dispatch)
Call(t) ==
    /\ tasks[t].pc = "idle"
    /\ IF t = 1 THEN TRUE ELSE tasks[t - 1].pc # "idle"
    /\ \E op \in {"initialize", "listAvailableVoices", "getProviderCapabilities",
                  "generateVoice"} :
          InitializeStart(t, [IdleTask EXCEPT !.op = op])

\* the first caller calls generateBatch(requests)
CallBatch ==
    /\ tasks[1].pc = "idle"
    /\ \E n \in 0..MaxBatch : \E reqs \in Batches(n) :
          tasks' = [tasks EXCEPT ![1] =
                      [IdleTask EXCEPT
                          !.op = "generateBatch", !.requests = reqs,
                          !.pc = IF reqs = <<>> THEN "done" ELSE "initialize",
                          !.status = IF reqs = <<>> THEN "ok" ELSE "none"]]
    /\ UNCHANGED <<configured, providers, initialized, initRuns, initOk>>
    /\ UNCHANGED <<timingVars, convVars, emotionVars, mixerVars, subtitleVars, promptVars, rerunVars, registryVars, processorVars, scriptVars>>

\* the loop of generateBatch calls generateVoice for its next request, which
\* enters initialize()
InitializeEnter(t) ==
    /\ tasks[t].pc = "initialize"
    /\ InitializeStart(t, tasks[t])

\* initialize() goes on after the await of provider p's initialize(), which
\* left the map as provs: the next configured provider, or the end
InitializeContinue(t, p, provs, outcome) ==
    LET tk == IF p = "elevenlabs" THEN [tasks[t] EXCEPT !.el = outcome, !.inst = 0]
              ELSE [tasks[t] EXCEPT !.oa = outcome, !.inst = 0]
    IN  /\ providers' = provs
        /\ IF p = "elevenlabs" /\ "openai" \in configured
           THEN /\ initRuns' = [initRuns EXCEPT !["openai"] = @ + 1]
                /\ tasks' = [tasks EXCEPT ![t] =
                              [tk EXCEPT !.pc = "await_openai",
                                         !.inst = initRuns'["openai"]]]
                /\ UNCHANGED initialized
           ELSE IF NoProvider(provs)
           THEN /\ tasks' = [tasks EXCEPT ![t] = InitializeThrew(tk)]
                /\ UNCHANGED <<initRuns, initialized>>
           ELSE /\ initialized' = TRUE
                /\ tasks' = [tasks EXCEPT ![t] = [tk EXCEPT !.pc = "ready"]]
                /\ UNCHANGED initRuns

\* the awaited initialize() of a provider resolves: providers.set(name, instance)
ProviderInitResolves(t) ==
    /\ tasks[t].pc \in {"await_elevenlabs", "await_openai"}
    /\ LET p == IF tasks[t].pc = "await_elevenlabs" THEN "elevenlabs" ELSE "openai"
       IN  /\ initOk' = initOk \cup {p}
           /\ InitializeContinue(t, p, [providers EXCEPT ![p] = tasks[t].inst], "ok")
    /\ UNCHANGED configured
    /\ UNCHANGED <<timingVars, convVars, emotionVars, mixerVars, subtitleVars, promptVars, rerunVars, registryVars, processorVars, scriptVars>>

\* the awaited initialize() of a provider rejects: the catch warns
ProviderInitRejects(t) ==
    /\ tasks[t].pc \in {"await_elevenlabs", "await_openai"}
    /\ LET p == IF tasks[t].pc = "await_elevenlabs" THEN "elevenlabs" ELSE "openai"
       IN  InitializeContinue(t, p, AfterInitRejects(providers, p, tasks[t].inst), "fail")
    /\ UNCHANGED <<configured, initOk>>
    /\ UNCHANGED <<timingVars, convVars, emotionVars, mixerVars, subtitleVars, promptVars, rerunVars, registryVars, processorVars, scriptVars>>

\* initialize() itself has returned
InitializeReturns(t) ==
    /\ tasks[t].pc = "ready"
    /\ tasks[t].op = "initialize"
    /\ tasks' = [tasks EXCEPT ![t] =
                    [IdleTask EXCEPT !.op = "initialize", !.pc = "done", !.status = "ok"]]
    /\ UNCHANGED <<configured, providers, initialized, initRuns, initOk>>
    /\ UNCHANGED <<timingVars, convVars, emotionVars, mixerVars, subtitleVars, promptVars, rerunVars, registryVars, processorVars, scriptVars>>

\* one entry per registered provider, in insertion order of the two names
ProviderEntries(provs) ==
    SelectSeq(<<"elevenlabs", "openai">>, LAMBDA p : Registered(provs, p))

\* listAvailableVoices() / getProviderCapabilities() after their await of
\* initialize(): they read the map
ReadProviders(t) ==
    /\ tasks[t].pc = "ready"
    /\ tasks[t].op \in {"listAvailableVoices", "getProviderCapabilities"}
    /\ tasks' = [tasks EXCEPT ![t] =
                    [IdleTask EXCEPT !.op = tasks[t].op, !.pc = "done", !.status = "ok",
                                     !.results = ProviderEntries(providers)]]
    /\ UNCHANGED <<configured, providers, initialized, initRuns, initOk>>
    /\ UNCHANGED <<timingVars, convVars, emotionVars, mixerVars, subtitleVars, promptVars, rerunVars, registryVars, processorVars, scriptVars>>

\* the provider is selected and its generateSpeech called; a request with
\* emotion transitions is cut into segments, each a generateVoice call of its
\* own with modulation.emotion set
Dispatched(tk, req, provs) ==
    LET seg == IF req.segments > 0 /\ tk.seg = 0 THEN 1 ELSE tk.seg
        sel == SelectProvider(provs, req, req.emotion \/ seg > 0)
    IN  IF sel = "none" THEN Concluded(tk, "no_suitable_provider", EmptyBuffer)
        ELSE [tk EXCEPT !.seg = seg, !.sel = sel, !.pc = "await_speech",
                        !.el = "none", !.oa = "none"]

\* generateVoice after its await of initialize(): from here to the call of
\* the provider's generateSpeech
Dispatch(t) ==
    /\ tasks[t].pc = "ready"
    /\ tasks[t].op \in {"generateVoice", "generateBatch"}
    /\ IF tasks[t].op = "generateVoice" /\ tasks[t].requests = <<>>
       THEN \E req \in VoiceRequests :
               tasks' = [tasks EXCEPT ![t] =
                          Dispatched([tasks[t] EXCEPT !.requests = <<req>>], req, providers)]
       ELSE tasks' = [tasks EXCEPT ![t] =
                        Dispatched(tasks[t], tasks[t].requests[tasks[t].i], providers)]
    /\ UNCHANGED <<configured, providers, initialized, initRuns, initOk>>
    /\ UNCHANGED <<timingVars, convVars, emotionVars, mixerVars, subtitleVars, promptVars, rerunVars, registryVars, processorVars, scriptVars>>

\* the awaited generateSpeech (and the post-processing) resolves: the next
\* segment, or the end of the request
SpeechResolves(t) ==
    /\ tasks[t].pc = "await_speech"
    /\ LET tk == tasks[t]
           req == tk.requests[tk.i]
       IN  tasks' = [tasks EXCEPT ![t] =
                       IF tk.seg > 0 /\ tk.seg < req.segments
                       THEN [tk EXCEPT !.seg = @ + 1, !.sel = "none", !.pc = "ready"]
                       ELSE Concluded(tk, "ok", Audio(tk.sel, req))]
    /\ UNCHANGED <<configured, providers, initialized, initRuns, initOk>>
    /\ UNCHANGED <<timingVars, convVars, emotionVars, mixerVars, subtitleVars, promptVars, rerunVars, registryVars, processorVars, scriptVars>>

\* the awaited generateSpeech rejects: generateVoice rejects
SpeechRejects(t) ==
    /\ tasks[t].pc = "await_speech"
    /\ tasks' = [tasks EXCEPT ![t] = Concluded(tasks[t], "speech_failed", EmptyBuffer)]
    /\ UNCHANGED <<configured, providers, initialized, initRuns, initOk>>
    /\ UNCHANGED <<timingVars, convVars, emotionVars, mixerVars, subtitleVars, promptVars, rerunVars, registryVars, processorVars, scriptVars>>

\* callers that use the engine at the same time
EngineNext ==
    \E t \in Tasks :
        \/ Call(t)
        \/ ProviderInitResolves(t)
        \/ ProviderInitRejects(t)
        \/ InitializeReturns(t)
        \/ ReadProviders(t)
        \/ Dispatch(t)
        \/ SpeechResolves(t)
        \/ SpeechRejects(t)

EngineSpec == EngineInit /\ [][EngineNext]_vars

\* one caller that runs a batch
BatchNext ==
    \/ CallBatch
    \/ InitializeEnter(1)
    \/ ProviderInitResolves(1)
    \/ ProviderInitRejects(1)
    \/ Dispatch(1)
    \/ SpeechResolves(1)
    \/ SpeechRejects(1)

BatchSpec == EngineInit /\ [][BatchNext]_vars

\* the batch caller under the scheduling the runtime gives: a continuation
\* that can run does run, and the providers' initialize() answers.  Nothing
\* makes a pending generateSpeech answer: generateVoice awaits it without a
\* timer (no timeout is set on the request either)
BatchFairSpec ==
    /\ BatchSpec
    /\ WF_vars(InitializeEnter(1))
    /\ WF_vars(ProviderInitResolves(1) \/ ProviderInitRejects(1))
    /\ WF_vars(Dispatch(1))

\* ------------------------------------------- EmotionTransitionEngine
\* Intensities, progress and eased progress are exact fractions num/den in
\* lowest terms with den > 0; NaN (the 0/0 of a transition of duration 0) has
\* den = 0 and is contagious, and every comparison with it is false.

\* words of the text (transitions beyond the first) of one call
MaxWords == 3
MaxTransitions == 2

NaN == [num |-> 0, den |-> 0]

IsNaN(x) == x.den = 0

Abs(n) == IF n < 0 THEN -n ELSE n

RECURSIVE GCD(_, _)
GCD(a, b) == IF b = 0 THEN a ELSE GCD(b, a % b)

\* n / d as JavaScript computes it, for d # 0 and for 0 / 0
Divide(n, d) ==
    IF d = 0 THEN NaN
    ELSE LET g == GCD(Abs(n), Abs(d))
             sign == IF d < 0 THEN -1 ELSE 1
         IN  [num |-> sign * (n \div g), den |-> sign * (d \div g)]

Whole(k) == [num |-> k, den |-> 1]

Plus(x, y) ==
    IF IsNaN(x) \/ IsNaN(y) THEN NaN
    ELSE Divide(x.num * y.den + y.num * x.den, x.den * y.den)

Minus(x, y) ==
    IF IsNaN(x) \/ IsNaN(y) THEN NaN
    ELSE Divide(x.num * y.den - y.num * x.den, x.den * y.den)

Times(x, y) ==
    IF IsNaN(x) \/ IsNaN(y) THEN NaN
    ELSE Divide(x.num * y.num, x.den * y.den)

Less(x, y) == ~IsNaN(x) /\ ~IsNaN(y) /\ x.num * y.den < y.num * x.den

Leq(x, y) == ~IsNaN(x) /\ ~IsNaN(y) /\ x.num * y.den <= y.num * x.den

\* Math.max(0, Math.min(1, x))
Clamp01(x) ==
    IF IsNaN(x) THEN NaN
    ELSE IF Less(x, Whole(0)) THEN Whole(0)
    ELSE IF Less(Whole(1), x) THEN Whole(1)
    ELSE x

\* ---- EmotionCurves
Curves == {"linear", "ease-in", "ease-out", "ease-in-out", "bezier"}

Linear(progress) == Clamp01(progress)

EaseIn(progress) == Times(progress, progress)

EaseOut(progress) ==
    Minus(Whole(1), Times(Minus(Whole(1), progress), Minus(Whole(1), progress)))

EaseInOut(progress) ==
    IF Less(progress, Divide(1, 2))
    THEN Times(Whole(2), Times(progress, progress))
    ELSE LET u == Plus(Times(Whole(-2), progress), Whole(2))
         IN  Minus(Whole(1), Times(Times(u, u), Divide(1, 2)))

\* the y coordinates of the default control points [[0.25, 0.1], [0.75, 0.9]]
DefaultControlPoints == <<Divide(1, 10), Divide(9, 10)>>

\* cubic bezier: only the y coordinates of the two control points are read
Bezier(progress, controlPoints) ==
    LET t == progress
        t2 == Times(t, t)
        t3 == Times(t2, t)
        mt == Minus(Whole(1), t)
        mt2 == Times(mt, mt)
    IN  Plus(Plus(Times(Times(Times(Whole(3), mt2), t), controlPoints[1]),
                  Times(Times(Times(Whole(3), mt), t2), controlPoints[2])),
             t3)

\* getCurveFunction(curve, controlPoints).calculate(progress)
Calculate(curve, controlPoints, progress) ==
    CASE curve = "linear" -> Linear(progress)
      [] curve = "ease-in" -> EaseIn(progress)
      [] curve = "ease-out" -> EaseOut(progress)
      [] curve = "ease-in-out" -> EaseInOut(progress)
      [] curve = "bezier" ->
            Bezier(progress,
                   IF controlPoints = <<>> THEN DefaultControlPoints ELSE controlPoints)

InterpolateEmotionIntensity(fromIntensity, toIntensity, progress, curve, controlPoints) ==
    Plus(fromIntensity,
         Times(Minus(toIntensity, fromIntensity),
               Calculate(curve, controlPoints, progress)))

\* ---- the text: words separated by three blanks, so that every character
\* index of a word is a multiple of 3 and the times below are whole ms
SeparatorLength == 3

WordLength(word) == IF word = "always" THEN 6 ELSE 3

\* text.indexOf(word): the index of the first character of the k-th word
RECURSIVE CharIndex(_, _)
CharIndex(txt, k) ==
    IF k = 1 THEN 0
    ELSE CharIndex(txt, k - 1) + WordLength(txt[k - 1]) + SeparatorLength

\* text.toLowerCase().indexOf(word.toLowerCase()) for a word of the
\* vocabulary (all lower case, none part of another): -1 when absent
IndexOf(txt, word) ==
    IF \E k \in 1..Len(txt) : txt[k] = word
    THEN CharIndex(txt, CHOOSE k \in 1..Len(txt) :
                            txt[k] = word /\ \A j \in 1..(k - 1) : txt[j] # word)
    ELSE -1

\* text.match(new RegExp(`\\[${marker}\\]`, 'i')).index: the only marker a
\* text of the vocabulary holds is [X]
MarkerIndex(txt, marker) ==
    IF marker = "X" THEN IndexOf(txt, "[X]") ELSE -1

\* (index / avgCharsPerSecond) * 1000 with avgCharsPerSecond = 15
CharTime(index) == (index * 1000) \div 15

\* a string that is absent (or empty): falsy
NoString == ""

Emotion(type, intensity) == [type |-> type, intensity |-> intensity]

Trigger(time, word, position, marker) ==
    [time |-> time, word |-> word, position |-> position, marker |-> marker]

Transition(fromEmotion, toEmotion, duration, curve, controlPoints, triggers) ==
    [fromEmotion |-> fromEmotion, toEmotion |-> toEmotion, duration |-> duration,
     curve |-> curve, controlPoints |-> controlPoints, triggers |-> triggers]

\* (mutant) the position is looked at before the word
CalculateTriggerTimePositionFirst(txt, transition) ==
    LET trigger == transition.triggers
    IN  IF trigger.time # Undefined THEN trigger.time
        ELSE IF trigger.position # Undefined THEN CharTime(trigger.position)
        ELSE IF trigger.word # NoString /\ IndexOf(txt, trigger.word) >= 0
        THEN CharTime(IndexOf(txt, trigger.word))
        ELSE IF trigger.marker # NoString /\ MarkerIndex(txt, trigger.marker) >= 0
        THEN CharTime(MarkerIndex(txt, trigger.marker))
        ELSE -1

\* calculateTriggerTime: -1 when the trigger is not found
CalculateTriggerTime(txt, transition) ==
    LET trigger == transition.triggers
    IN  IF trigger.time # Undefined THEN trigger.time
        ELSE IF trigger.word # NoString /\ IndexOf(txt, trigger.word) >= 0
        THEN CharTime(IndexOf(txt, trigger.word))
        ELSE IF trigger.position # Undefined THEN CharTime(trigger.position)
        ELSE IF trigger.marker # NoString /\ MarkerIndex(txt, trigger.marker) >= 0
        THEN CharTime(MarkerIndex(txt, trigger.marker))
        ELSE -1

\* TransitionConfig defaults of the constructor
MinimumDuration == 500
MaximumDuration == 3000
IntensityThreshold == Divide(1, 10)

\* validateTransition
ValidateTransition(transition) ==
    /\ ~(transition.duration < MinimumDuration)
    /\ ~(transition.duration > MaximumDuration)
    /\ LET diff == Minus(transition.toEmotion.intensity, transition.fromEmotion.intensity)
           intensityDiff == IF Less(diff, Whole(0)) THEN Minus(Whole(0), diff) ELSE diff
       IN  ~Less(intensityDiff, IntensityThreshold)

\* a keyframe; transition is the index of the transition it starts, 0 for none
Keyframe(time, emotion, intensity, transition) ==
    [time |-> time, emotion |-> emotion, intensity |-> intensity,
     transition |-> transition]

\* the keyframes pushed for the transitions k.. of the list
RECURSIVE TransitionKeyframes(_, _, _)
TransitionKeyframes(txt, trs, k) ==
    IF k > Len(trs) THEN <<>>
    ELSE LET transition == trs[k]
             triggerTime == CalculateTriggerTime(txt, transition)
             own == IF triggerTime >= 0
                    THEN <<Keyframe(triggerTime, transition.fromEmotion.type,
                                    transition.fromEmotion.intensity, k),
                           Keyframe(triggerTime + transition.duration,
                                    transition.toEmotion.type,
                                    transition.toEmotion.intensity, 0)>>
                    ELSE <<>>
         IN  own \o TransitionKeyframes(txt, trs, k + 1)

\* keyframes.sort((a, b) => a.time - b.time): stable
SortKeyframes(keyframes) == StableSort(keyframes, Len(keyframes))

\* createEmotionTimeline: the keyframes of the timeline
CreateEmotionTimeline(txt, trs, default) ==
    SortKeyframes(<<Keyframe(0, default.type, default.intensity, 0)>>
                  \o TransitionKeyframes(txt, trs, 1))

\* interpolateEmotion(fromKeyframe, toKeyframe, currentTime, transition)
InterpolateEmotion(fromKeyframe, time, transition) ==
    LET progress == Divide(time - fromKeyframe.time, transition.duration)
        clampedProgress == Clamp01(progress)
    IN  Emotion(IF Less(clampedProgress, Divide(1, 2))
                THEN transition.fromEmotion.type
                ELSE transition.toEmotion.type,
                InterpolateEmotionIntensity(
                    transition.fromEmotion.intensity, transition.toEmotion.intensity,
                    clampedProgress, transition.curve, transition.controlPoints))

\* the first i with keyframes[i].time <= time <= keyframes[i + 1].time, 0 if none
CurrentInterval(keyframes, time) ==
    LET in == {i \in 1..(Len(keyframes) - 1) :
                   time >= keyframes[i].time /\ time <= keyframes[i + 1].time}
    IN  IF in = {} THEN 0 ELSE CHOOSE i \in in : \A j \in in : i <= j

\* getEmotionAtTime
GetEmotionAtTime(keyframes, trs, time) ==
    LET i == CurrentInterval(keyframes, time)
    IN  IF i = 0
        THEN Emotion(keyframes[Len(keyframes)].emotion,
                     keyframes[Len(keyframes)].intensity)
        ELSE LET current == keyframes[i]
             IN  IF current.transition # 0
                    /\ time <= current.time + trs[current.transition].duration
                 THEN InterpolateEmotion(current, time, trs[current.transition])
                 ELSE Emotion(current.emotion, current.intensity)

\* the keyframe carries a transition whose window holds the time
InWindow(keyframe, trs, time) ==
    /\ keyframe.transition # 0
    /\ time >= keyframe.time
    /\ time <= keyframe.time + trs[keyframe.transition].duration

\* the keyframes that getTransitionAtTime stops at, by index
WindowKeyframes(keyframes, trs, time) ==
    {i \in 1..Len(keyframes) : InWindow(keyframes[i], trs, time)}

\* getTransitionAtTime, when it does not return null: the data of the first
\* keyframe whose window holds the time
GetTransitionAtTime(keyframes, trs, time) ==
    LET hits == WindowKeyframes(keyframes, trs, time)
        keyframe == keyframes[CHOOSE i \in hits : \A j \in hits : i <= j]
        transition == trs[keyframe.transition]
    IN  [fromEmotion |-> transition.fromEmotion,
         toEmotion |-> transition.toEmotion,
         progress |-> Divide(time - keyframe.time, transition.duration)]

\* (word.length / 15) * 1000
WordDuration(word) == (WordLength(word) * 1000) \div 15

\* the segment that one iteration of generateEmotionSegments pushes;
\* transitionData is <<>> when getTransitionAtTime returns null
EmotionSegment(keyframes, trs, word, time) ==
    LET found == WindowKeyframes(keyframes, trs, time) # {}
    IN  [startTime |-> time,
         endTime |-> time + WordDuration(word),
         text |-> word,
         emotion |-> GetEmotionAtTime(keyframes, trs, time),
         isTransition |-> found,
         transitionData |->
             IF found THEN GetTransitionAtTime(keyframes, trs, time) ELSE <<>>]

\* ---- the calls of processEmotionTransitions
Calm == Emotion("calm", Divide(6, 10))
Excited == Emotion("excited", Divide(9, 10))
Neutral == Emotion("neutral", Divide(1, 2))

\* texts of n words
Texts(n, vocabulary) == LET W(i) == vocabulary IN SeqsOver(n, W)

\* one valid transition with every combination of trigger fields: a word
\* that may be in the text or not, a marker that may be in the text or not
TriggerTransitions ==
    {<<Transition(Calm, Excited, 1000, "linear", <<>>, Trigger(t, w, p, m))>> :
        t \in {Undefined, 0, 2000}, w \in {NoString, "always", "never"},
        p \in {Undefined, 9}, m \in {NoString, "X", "Y"}}

\* transitions triggered by time: windows that follow, touch and overlap;
\* durations below the minimum, zero and negative; intensity changes below
\* the threshold; every curve for the first transition
TimelineTransition(i) ==
    {Transition(Calm, to, d, c[1], c[2], Trigger(t, NoString, Undefined, NoString)) :
        to \in {Excited, Emotion("calm", Divide(13, 20))},
        d \in {-500, 0, 1000},
        c \in IF i = 1
              THEN {<<curve, <<>>>> : curve \in Curves}
                   \cup {<<"bezier", <<Whole(0), Whole(1)>>>>}
              ELSE {<<"ease-in-out", <<>>>>},
        t \in IF i = 1 THEN {0, 200} ELSE {200}}

EmotionInit ==
    /\ \/ /\ \E n \in 1..MaxWords : text \in Texts(n, {"one", "always", "[X]"})
          /\ transitions \in TriggerTransitions
       \/ /\ \E n \in 1..MaxWords : text \in Texts(n, {"one", "always"})
          /\ \E m \in 0..MaxTransitions : transitions \in SeqsOver(m, TimelineTransition)
    /\ defaultEmotion = Neutral
    /\ timeline = <<>>
    /\ emotionSegments = <<>>
    /\ wordTime = 0
    /\ MixerIdle
    /\ SubtitleIdle
    /\ PromptIdle
    /\ RerunIdle
    /\ RegistryIdle
    /\ ProcessorIdle
    /\ ScriptIdle
    /\ ConvIdle
    /\ EngineIdle
    /\ dialogue = <<>>
    /\ processed = <<>>
    /\ idx = 1
    /\ currentTime = 0

\* processEmotionTransitions calls createEmotionTimeline
TimelineStep ==
    /\ timeline = <<>>
    /\ timeline' = CreateEmotionTimeline(text, transitions, defaultEmotion)
    /\ UNCHANGED <<text, transitions, defaultEmotion, emotionSegments, wordTime>>
    /\ UNCHANGED <<timingVars, convVars, engineVars, mixerVars, subtitleVars, promptVars, rerunVars, registryVars, processorVars, scriptVars>>

\* one iteration of the for loop of generateEmotionSegments
SegmentStep ==
    /\ timeline # <<>>
    /\ Len(emotionSegments) < Len(text)
    /\ LET segment == EmotionSegment(timeline, transitions,
                                     text[Len(emotionSegments) + 1], wordTime)
       IN  /\ emotionSegments' = Append(emotionSegments, segment)
           /\ wordTime' = segment.endTime
    /\ UNCHANGED <<text, transitions, defaultEmotion, timeline>>
    /\ UNCHANGED <<timingVars, convVars, engineVars, mixerVars, subtitleVars, promptVars, rerunVars, registryVars, processorVars, scriptVars>>

EmotionNext == TimelineStep \/ SegmentStep

EmotionSpec == EmotionInit /\ [][EmotionNext]_vars

\* processEmotionTransitions has returned
EmotionDone == timeline # <<>> /\ Len(emotionSegments) = Len(text)

\* ----------------------------------------------- AudioMixer.mixConversation
\* Buffers are sequences of 16-bit samples, one per frame: the channels of a
\* frame go through the same statements independently of each other, so one
\* channel is carried. Arithmetic is exact where the code uses doubles.

\* tracks of one call, segments of one track
MaxTracks == 2
MaxSegments == 1

\* AudioMixer.defaultSampleRate
SampleRate == 44100

\* the bounds of Math.max(-32768, Math.min(32767, x))
Int16Min == -32768
Int16Max == 32767

Min(a, b) == IF a <= b THEN a ELSE b

\* Math.round(p / q) for integers p and q > 0: the nearest integer, a half
\* goes towards +Infinity
Round(p, q) ==
    IF p >= 0 THEN (2 * p + q) \div (2 * q)
    ELSE -((2 * (-p) + q - 1) \div (2 * q))

\* (mutant) only the upper bound saturates
ClampInt16UpperOnly(value) == Min(Int16Max, value)

\* Math.max(-32768, Math.min(32767, value))
ClampInt16(value) == Max(Int16Min, Min(Int16Max, value))

\* Math.ceil((totalDurationMs / 1000) * sampleRate)
TotalSamples(totalDurationMs) == (totalDurationMs * SampleRate + 999) \div 1000

\* Math.floor((startTimeMs / 1000) * sampleRate)
StartSample(startTimeMs) == (startTimeMs * SampleRate) \div 1000

\* Buffer.alloc: zero-filled
Alloc(samples) == [k \in 1..samples |-> 0]

\* an event whose data holds no volumeReduction: undefined, falsy
NoReduction == NaN

\* overlapEvent.data?.volumeReduction || 0.3
VolumeReduction(event) ==
    IF IsNaN(event.volumeReduction) \/ event.volumeReduction.num = 0
    THEN Divide(3, 10)
    ELSE event.volumeReduction

\* characterEvents.filter(...) of mixTrackIntoBuffer for one segment
OverlappingEvents(characterId, segment, evs) ==
    SelectSeq(evs, LAMBDA event :
        /\ event.characterId = characterId
        /\ event.time >= segment.startTime
        /\ event.time <= segment.endTime
        /\ event.type = "overlap_start")

\* mixTrackIntoBuffer: the volume of one segment
SegmentVolume(characterId, segment, evs) ==
    LET overlappingEvents == OverlappingEvents(characterId, segment, evs)
    IN  IF Len(overlappingEvents) > 0
        THEN Minus(Whole(1), VolumeReduction(overlappingEvents[1]))
        ELSE Whole(1)

\* mixAudioSegmentIntoBuffer: the segment's frames that fall inside the
\* buffer are scaled, added and clamped
MixAudioSegmentIntoBuffer(segmentBuffer, buffer, startSample, vol) ==
    [k \in 1..Len(buffer) |->
        LET i == (k - 1) - startSample
        IN  IF i >= 0 /\ i < Len(segmentBuffer)
            THEN ClampInt16(buffer[k] + Round(segmentBuffer[i + 1] * vol.num, vol.den))
            ELSE buffer[k]]

RECURSIVE Peak(_)
\* normalizeAudio: the peak amplitude
Peak(buffer) ==
    IF buffer = <<>> THEN 0 ELSE Max(Abs(Head(buffer)), Peak(Tail(buffer)))

\* Math.round(sample * normalizationFactor), normalizationFactor being
\* (32767 * 0.95) / peak: sample * (32767 * 19) / (20 * peak), the product
\* taken in two parts to stay within 32 bits
NormalizedSample(sample, peak) ==
    LET k == Int16Max * 19
        d == 20 * peak
        a == Abs(sample)
        hi == a \div 256
        lo == a % 256
        whole == ((k * hi) \div d) * 256
        rest == ((k * hi) % d) * 256 + k * lo
    IN  IF sample >= 0 THEN whole + Round(rest, d)
        ELSE -whole + Round(-rest, d)

\* normalizeAudio
NormalizeAudio(buffer) ==
    LET peak == Peak(buffer)
    IN  IF peak = 0 THEN buffer
        ELSE [k \in 1..Len(buffer) |->
                ClampInt16(NormalizedSample(buffer[k], peak))]

\* applyCompression for one sample: threshold = 32767 * (1 - level),
\* ratio = 1 + level * 3, over the common denominator of the level
CompressedSample(sample, level) ==
    LET a == level.num
        b == level.den
        absSample == Abs(sample)
        sign == IF sample >= 0 THEN 1 ELSE -1
    IN  IF absSample * b > Int16Max * (b - a)
        THEN Round(sign * (Int16Max * (b - a) * (b + 3 * a)
                            + (absSample * b - Int16Max * (b - a)) * b),
                   b * (b + 3 * a))
        ELSE sample

\* applyCompression
ApplyCompression(buffer, level) ==
    [k \in 1..Len(buffer) |-> ClampInt16(CompressedSample(buffer[k], level))]

\* applySpatialAudio: Buffer.alloc and buffer.copy, the samples are the same
ApplySpatialAudio(buffer) == [k \in 1..Len(buffer) |-> buffer[k]]

RECURSIVE SegmentsInOrder(_)
\* the segments in the order the two for loops reach them, each with the
\* characterId of its track
SegmentsInOrder(trs) ==
    IF trs = <<>> THEN <<>>
    ELSE [k \in 1..Len(Head(trs).segments) |->
            [characterId |-> Head(trs).characterId,
             segment |-> Head(trs).segments[k]]]
         \o SegmentsInOrder(Tail(trs))

\* ---- inputs of the mixer specification
TrackCharacter(i) == IF i = 1 THEN "alice" ELSE IF i = 2 THEN "bob" ELSE "carol"

AudioSegment(startTime, endTime, audioBuffer) ==
    [startTime |-> startTime, endTime |-> endTime, audioBuffer |-> audioBuffer]

\* segments of one millisecond at 0 ms and at 1 ms: full-scale, loud and
\* quiet audio for the first segment of the first track, loud audio at 0 ms
\* and quiet audio at 1 ms for the others
MixSegments(i, j) ==
    IF i = 1 /\ j = 1
    THEN {AudioSegment(t, t + 1, b) :
            t \in {0, 1},
            b \in {<<Int16Min>>, <<-20000, 100>>, <<20000, Int16Max>>, <<100, -50>>}}
    ELSE {AudioSegment(0, 1, <<-20000, 100>>), AudioSegment(1, 2, <<100, -50>>)}

\* the i-th track, with up to MaxSegments segments
MixTracks(i) ==
    {[characterId |-> TrackCharacter(i), segments |-> segs] :
        segs \in UNION {LET S(j) == MixSegments(i, j) IN SeqsOver(m, S) :
                            m \in 0..MaxSegments}}

TimelineEvent(time, type, characterId, volumeReduction) ==
    [time |-> time, type |-> type, characterId |-> characterId,
     volumeReduction |-> volumeReduction]

\* timelines of one millisecond with no event or one event, inside the
\* segment at 0 ms or the one at 1 ms
MixTimelines ==
    {[totalDuration |-> 1, events |-> evs] :
        evs \in {<<>>}
            \cup {<<TimelineEvent(t, "overlap_start", c, r)>> :
                    t \in {0, 2}, c \in {"alice", "bob"},
                    r \in {NoReduction, Whole(0), Divide(3, 10), Divide(1, 2), Whole(1)}}
            \cup {<<TimelineEvent(t, "line_start", c, NoReduction)>> :
                    t \in {0, 2}, c \in {"alice", "bob"}}}

MixingOptions(normalizeAudio, compressionLevel, spatialAudioEnabled) ==
    [normalizeAudio |-> normalizeAudio, compressionLevel |-> compressionLevel,
     spatialAudioEnabled |-> spatialAudioEnabled]

\* mixConversation is called: overlap events with the final processing
\* switched off, or every combination of the final processing
MixerInit ==
    /\ \E n \in 0..MaxTracks : tracks \in SeqsOver(n, MixTracks)
    /\ \/ /\ mixTimeline \in MixTimelines
          /\ options = MixingOptions(FALSE, Whole(0), FALSE)
       \/ /\ mixTimeline = [totalDuration |-> 1, events |-> <<>>]
          /\ options \in {MixingOptions(n, c, s) :
                            n \in BOOLEAN,
                            c \in {Whole(0), Divide(3, 10), Whole(1)},
                            s \in BOOLEAN}
    /\ mpc = "called"
    /\ mixBuffer = <<>>
    /\ mixedSegments = 0
    /\ volume = Whole(1)
    /\ finalBuffer = <<>>
    /\ SubtitleIdle
    /\ PromptIdle
    /\ RerunIdle
    /\ RegistryIdle
    /\ ProcessorIdle
    /\ ScriptIdle
    /\ ConvIdle
    /\ EngineIdle
    /\ EmotionIdle
    /\ dialogue = <<>>
    /\ processed = <<>>
    /\ idx = 1
    /\ currentTime = 0

\* mixConversation up to the loop over the tracks
MixConversationStart ==
    /\ mpc = "called"
    /\ IF Len(tracks) = 0
       THEN mpc' = "threw" /\ UNCHANGED mixBuffer
       ELSE /\ mpc' = "mixing"
            /\ mixBuffer' = Alloc(TotalSamples(mixTimeline.totalDuration))
    /\ UNCHANGED <<tracks, mixTimeline, options, mixedSegments, volume, finalBuffer>>
    /\ UNCHANGED <<timingVars, convVars, engineVars, emotionVars, subtitleVars, promptVars, rerunVars, registryVars, processorVars, scriptVars>>

\* one iteration of the loop over the segments in mixTrackIntoBuffer
MixSegmentStep ==
    /\ mpc = "mixing"
    /\ mixedSegments < Len(SegmentsInOrder(tracks))
    /\ LET next == SegmentsInOrder(tracks)[mixedSegments + 1]
           vol == SegmentVolume(next.characterId, next.segment, mixTimeline.events)
       IN  /\ volume' = vol
           /\ mixBuffer' = MixAudioSegmentIntoBuffer(
                               next.segment.audioBuffer, mixBuffer,
                               StartSample(next.segment.startTime), vol)
    /\ mixedSegments' = mixedSegments + 1
    /\ UNCHANGED <<tracks, mixTimeline, options, mpc, finalBuffer>>
    /\ UNCHANGED <<timingVars, convVars, engineVars, emotionVars, subtitleVars, promptVars, rerunVars, registryVars, processorVars, scriptVars>>

\* let finalBuffer = mixBuffer; if (options.normalizeAudio) ...
NormalizeStep ==
    /\ mpc = "mixing"
    /\ mixedSegments = Len(SegmentsInOrder(tracks))
    /\ finalBuffer' = IF options.normalizeAudio THEN NormalizeAudio(mixBuffer)
                      ELSE mixBuffer
    /\ mpc' = "normalized"
    /\ UNCHANGED <<tracks, mixTimeline, options, mixBuffer, mixedSegments, volume>>
    /\ UNCHANGED <<timingVars, convVars, engineVars, emotionVars, subtitleVars, promptVars, rerunVars, registryVars, processorVars, scriptVars>>

\* if (options.compressionLevel > 0) ...
CompressStep ==
    /\ mpc = "normalized"
    /\ finalBuffer' = IF Less(Whole(0), options.compressionLevel)
                      THEN ApplyCompression(finalBuffer, options.compressionLevel)
                      ELSE finalBuffer
    /\ mpc' = "compressed"
    /\ UNCHANGED <<tracks, mixTimeline, options, mixBuffer, mixedSegments, volume>>
    /\ UNCHANGED <<timingVars, convVars, engineVars, emotionVars, subtitleVars, promptVars, rerunVars, registryVars, processorVars, scriptVars>>

\* if (options.spatialAudioEnabled) ...; return finalBuffer
ReturnStep ==
    /\ mpc = "compressed"
    /\ finalBuffer' = IF options.spatialAudioEnabled THEN ApplySpatialAudio(finalBuffer)
                      ELSE finalBuffer
    /\ mpc' = "done"
    /\ UNCHANGED <<tracks, mixTimeline, options, mixBuffer, mixedSegments, volume>>
    /\ UNCHANGED <<timingVars, convVars, engineVars, emotionVars, subtitleVars, promptVars, rerunVars, registryVars, processorVars, scriptVars>>

MixerNext ==
    \/ MixConversationStart
    \/ MixSegmentStep
    \/ NormalizeStep
    \/ CompressStep
    \/ ReturnStep

MixerSpec == MixerInit /\ [][MixerNext]_vars

\* mixConversation has returned the master buffer
MixerDone == mpc = "done"

\* ----------------------------------------------------------- SubtitleReader
\* A file is the sequence of its lines, each already trimmed. A line of text
\* is the sequence of its tokens; the white space between tokens is not
\* carried. Times are whole milliseconds.

\* cues (blocks) of one file
MaxCues == 2

Line(kind, value, startTime, endTime, tokens) ==
    [kind |-> kind, value |-> value, startTime |-> startTime, endTime |-> endTime,
     tokens |-> tokens]

BlankLine == Line("blank", 0, 0, 0, <<>>)
HeaderLine == Line("header", 0, 0, 0, <<"WEBVTT">>)
\* a line of digits
NumberLine(n) == Line("number", n, 0, 0, <<>>)
\* HH:MM:SS,mmm --> HH:MM:SS,mmm (fmt "srt") or with dots (fmt "vtt")
TimecodeLine(fmt, startTime, endTime) == Line(fmt, 0, startTime, endTime, <<>>)
TextLine(tokens) == Line("text", 0, 0, 0, tokens)
\* a cue identifier: to the reader a line of text like any other
IdentifierLine(tokens) == Line("id", 0, 0, 0, tokens)

\* the line feed inside a text of several lines
NewLine == "\n"

\* the characters of a line, as tokens
LineTokens(line) ==
    IF line.kind = "number" THEN <<ToString(line.value)>>
    ELSE IF line.kind \in {"srt", "vtt"} THEN <<"-->">>
    ELSE line.tokens

\* /^([A-Z][^:]*?):/: the token starts with a capital letter
StartsUpper(token) == token \in {"NARRATOR:", "Hello"}
\* the token ends with the first colon of the text
EndsWithColon(token) == token \in {"NARRATOR:"}
\* /\[([a-z]+)\]/i: a bracketed tag of letters
IsLetterTag(token) == token \in {"[happy]", "[foo]", "[SAD]"}
\* emotionMatch[1].toLowerCase()
TagName(token) ==
    IF token = "[happy]" THEN "happy" ELSE IF token = "[SAD]" THEN "sad" ELSE "foo"
\* /<[^>]*>/ and /\{[^}]*\}/
IsFormattingTag(token) == token \in {"<i>", "{b}"}

RECURSIVE TrimLeft(_)
TrimLeft(tokens) ==
    IF tokens # <<>> /\ Head(tokens) = NewLine THEN TrimLeft(Tail(tokens)) ELSE tokens

RECURSIVE TrimRight(_)
TrimRight(tokens) ==
    IF tokens # <<>> /\ tokens[Len(tokens)] = NewLine
    THEN TrimRight(SubSeq(tokens, 1, Len(tokens) - 1))
    ELSE tokens

\* String.prototype.trim
Trim(tokens) == TrimRight(TrimLeft(tokens))

\* no speaker, no emotion
NoSpeaker == <<>>
NoEmotion == "none"

\* parseTextAnnotations
ParseTextAnnotations(txt) ==
    LET colons == {k \in 1..Len(txt) : EndsWithColon(txt[k])}
        speakerEnd == CHOOSE k \in colons : \A j \in colons : k <= j
        speakerMatch ==
            /\ txt # <<>>
            /\ StartsUpper(txt[1])
            /\ colons # {}
            /\ speakerEnd < Len(txt)
        speaker == IF speakerMatch THEN SubSeq(txt, 1, speakerEnd) ELSE NoSpeaker
        afterSpeaker ==
            IF speakerMatch THEN Trim(SubSeq(txt, speakerEnd + 1, Len(txt))) ELSE txt
        tags == {k \in 1..Len(afterSpeaker) : IsLetterTag(afterSpeaker[k])}
        emotion ==
            IF tags = {} THEN NoEmotion
            ELSE TagName(afterSpeaker[CHOOSE k \in tags : \A j \in tags : k <= j])
        afterEmotion ==
            IF tags = {} THEN afterSpeaker
            ELSE Trim(SelectSeq(afterSpeaker, LAMBDA token : ~IsLetterTag(token)))
        cleanText ==
            Trim(SelectSeq(afterEmotion, LAMBDA token : ~IsFormattingTag(token)))
    IN  [cleanText |-> cleanText, speaker |-> speaker, emotion |-> emotion]

RECURSIVE JoinLines(_)
\* textLines.join('\n')
JoinLines(textLines) ==
    IF textLines = <<>> THEN <<>>
    ELSE IF Len(textLines) = 1 THEN LineTokens(textLines[1])
    ELSE LineTokens(textLines[1]) \o <<NewLine>> \o JoinLines(Tail(textLines))

RECURSIVE SplitLines(_, _)
\* the lines of an emitted text: it is cut at its line feeds, and a piece
\* without characters is a blank line
SplitLines(tokens, current) ==
    LET line == IF current = <<>> THEN BlankLine ELSE TextLine(current)
    IN  IF tokens = <<>> THEN <<line>>
        ELSE IF Head(tokens) = NewLine THEN <<line>> \o SplitLines(Tail(tokens), <<>>)
        ELSE SplitLines(Tail(tokens), Append(current, Head(tokens)))

RECURSIVE BlocksFrom(_, _, _)
BlocksFrom(file, k, current) ==
    IF k > Len(file) THEN (IF current = <<>> THEN <<>> ELSE <<current>>)
    ELSE IF file[k].kind = "blank"
    THEN (IF current = <<>> THEN <<>> ELSE <<current>>) \o BlocksFrom(file, k + 1, <<>>)
    ELSE BlocksFrom(file, k + 1, Append(current, file[k]))

\* content.split(/\n\s*\n/).filter(block => block.trim()), each block as its
\* lines (the file does not start with a blank line)
Blocks(file) == BlocksFrom(file, 1, <<>>)

\* parseInt(line, 10): the leading digits, Undefined for NaN; the leading
\* digits of a timecode line are its hours
ParseInt(line) ==
    IF line.kind = "number" THEN line.value
    ELSE IF line.kind \in {"srt", "vtt"} THEN 0
    ELSE Undefined

Entry(index, startTime, endTime, txt, speaker, emotion) ==
    [index |-> index, startTime |-> startTime, endTime |-> endTime, text |-> txt,
     speaker |-> speaker, emotion |-> emotion]

\* the entry of the text lines of a cue
AnnotatedEntry(index, startTime, endTime, textLines) ==
    LET parsed == ParseTextAnnotations(JoinLines(textLines))
    IN  Entry(index, startTime, endTime, parsed.cleanText, parsed.speaker,
              parsed.emotion)

\* the body of the loop of parseSRT: the entries one block adds
ParseSRTBlock(block) ==
    IF Len(block) < 3 THEN <<>>
    ELSE IF ParseInt(block[1]) = Undefined THEN <<>>
    ELSE IF block[2].kind # "srt" THEN <<>>
    ELSE <<AnnotatedEntry(ParseInt(block[1]), block[2].startTime, block[2].endTime,
                          SubSeq(block, 3, Len(block)))>>

\* parseVTT: "Save previous cue if exists" and "Handle last cue"
SaveCue(c, es) ==
    IF c.inCue /\ Len(c.cueText) > 0
    THEN [cue |-> [c EXCEPT !.index = c.index + 1],
          entries |-> Append(es, AnnotatedEntry(c.index, c.startTime, c.endTime,
                                                c.cueText))]
    ELSE [cue |-> c, entries |-> es]

\* the body of the loop of parseVTT for one line
ParseVTTLine(c, es, line) ==
    IF line.kind \in {"header", "blank"} THEN [cue |-> c, entries |-> es]
    ELSE IF line.kind = "vtt"
    THEN LET saved == SaveCue(c, es)
         IN  [cue |-> [saved.cue EXCEPT !.startTime = line.startTime,
                                        !.endTime = line.endTime,
                                        !.inCue = TRUE,
                                        !.cueText = <<>>],
              entries |-> saved.entries]
    ELSE IF c.inCue
    THEN [cue |-> [c EXCEPT !.cueText = Append(@, line)], entries |-> es]
    ELSE [cue |-> c, entries |-> es]

RECURSIVE ParseVTTFrom(_, _, _, _)
ParseVTTFrom(file, k, c, es) ==
    IF k > Len(file) THEN SaveCue(c, es).entries
    ELSE LET after == ParseVTTLine(c, es, file[k])
         IN  ParseVTTFrom(file, k + 1, after.cue, after.entries)

\* parseVTT: the entries of a file
ParseVTT(file) == ParseVTTFrom(file, 1, NoCue, <<>>)

\* Math.floor(seconds) * 1000 + Math.floor((seconds % 1) * 1000) for the
\* times of the files below (whole seconds, and one millisecond after a
\* whole second): in doubles (s + 0.001) % 1 * 1000 is 0.99999..., so the
\* millisecond is lost
FloorMilliseconds(time) == IF time % 1000 = 1 THEN time - 1 ELSE time

\* text = speaker ? `${speaker}: ${text}` : text
SpokenText(entry) ==
    IF entry.speaker # NoSpeaker THEN entry.speaker \o entry.text ELSE entry.text

RECURSIVE GenerateSRTFrom(_, _)
GenerateSRTFrom(es, k) ==
    IF k > Len(es) THEN <<>>
    ELSE <<NumberLine(k),
           TimecodeLine("srt", FloorMilliseconds(es[k].startTime),
                        FloorMilliseconds(es[k].endTime))>>
         \o SplitLines(SpokenText(es[k]), <<>>)
         \o <<BlankLine>>
         \o GenerateSRTFrom(es, k + 1)

\* convertToTimeline and generateSRT: the lines of lines.join('\n')
GenerateSRT(es) == GenerateSRTFrom(es, 1)

\* ---- the files the reader is given
\* the texts of a cue: plain, with a speaker, with emotion tags of the
\* vocabulary and outside it, of two lines, nothing but a tag, a speaker
\* behind a formatting tag
CueTexts(i) ==
    IF i = 1
    THEN {<<TextLine(<<"hello">>)>>,
          <<TextLine(<<"NARRATOR:", "hello">>)>>,
          <<TextLine(<<"[happy]", "hello">>)>>,
          <<TextLine(<<"hello", "[foo]">>)>>,
          <<TextLine(<<"[SAD]", "[foo]", "hello">>)>>,
          <<TextLine(<<"Hello">>), TextLine(<<"there">>)>>,
          <<TextLine(<<"[happy]">>)>>,
          <<TextLine(<<"<i>", "NARRATOR:", "hello">>)>>}
    ELSE {<<TextLine(<<"hello">>)>>,
          <<TextLine(<<"NARRATOR:", "hello">>)>>,
          <<TextLine(<<"[happy]", "hello">>)>>}

\* the i-th block of an SRT file: numbered i or i + 1, starting on a whole
\* second or a millisecond later
SRTBlocks(i) ==
    {<<NumberLine(n), TimecodeLine("srt", start, 2000 * i)>> \o textLines \o <<BlankLine>> :
        n \in {i, i + 1}, start \in {2000 * i - 1000, 2000 * i - 999},
        textLines \in CueTexts(i)}

\* the i-th cue of a VTT file, with or without a cue identifier
VTTCues(i) ==
    {id \o <<TimecodeLine("vtt", 2000 * i - 1000, 2000 * i)>> \o textLines \o <<BlankLine>> :
        id \in {<<>>, <<IdentifierLine(<<ToString(i)>>)>>, <<IdentifierLine(<<"intro">>)>>},
        textLines \in {<<TextLine(<<"hello">>)>>,
                       <<TextLine(<<"NARRATOR:", "hello">>)>>,
                       <<TextLine(<<"Hello">>), TextLine(<<"there">>)>>}}

RECURSIVE Flatten(_)
Flatten(parts) == IF parts = <<>> THEN <<>> ELSE Head(parts) \o Flatten(Tail(parts))

SubtitleInit ==
    /\ \E n \in 0..MaxCues :
          \/ /\ format = "srt"
             /\ \E parts \in SeqsOver(n, SRTBlocks) : content = Flatten(parts)
          \/ /\ format = "vtt"
             /\ \E parts \in SeqsOver(n, VTTCues) :
                   content = <<HeaderLine, BlankLine>> \o Flatten(parts)
    /\ spc = "parsing"
    /\ subPos = 1
    /\ cue = NoCue
    /\ entries = <<>>
    /\ sourceEntries = <<>>
    /\ ConvIdle
    /\ EngineIdle
    /\ EmotionIdle
    /\ MixerIdle
    /\ PromptIdle
    /\ RerunIdle
    /\ RegistryIdle
    /\ ProcessorIdle
    /\ ScriptIdle
    /\ dialogue = <<>>
    /\ processed = <<>>
    /\ idx = 1
    /\ currentTime = 0

\* one iteration of the loop over the blocks in parseSRT
ParseSRTStep ==
    /\ format = "srt"
    /\ spc \in {"parsing", "reparsing"}
    /\ subPos <= Len(Blocks(content))
    /\ entries' = entries \o ParseSRTBlock(Blocks(content)[subPos])
    /\ subPos' = subPos + 1
    /\ UNCHANGED <<content, format, spc, cue, sourceEntries>>
    /\ UNCHANGED <<timingVars, convVars, engineVars, emotionVars, mixerVars, promptVars, rerunVars, registryVars, processorVars, scriptVars>>

\* parse has returned the track; exportToSubtitle(timeline, 'srt') writes it
\* and the written file is parsed
ExportToSubtitle ==
    /\ format = "srt"
    /\ spc = "parsing"
    /\ subPos > Len(Blocks(content))
    /\ sourceEntries' = entries
    /\ content' = GenerateSRT(entries)
    /\ entries' = <<>>
    /\ subPos' = 1
    /\ spc' = "reparsing"
    /\ UNCHANGED <<format, cue>>
    /\ UNCHANGED <<timingVars, convVars, engineVars, emotionVars, mixerVars, promptVars, rerunVars, registryVars, processorVars, scriptVars>>

\* parseSRT returns the track of the written file
ParseSRTReturn ==
    /\ format = "srt"
    /\ spc = "reparsing"
    /\ subPos > Len(Blocks(content))
    /\ spc' = "done"
    /\ UNCHANGED <<content, format, subPos, cue, entries, sourceEntries>>
    /\ UNCHANGED <<timingVars, convVars, engineVars, emotionVars, mixerVars, promptVars, rerunVars, registryVars, processorVars, scriptVars>>

\* one iteration of the loop over the lines in parseVTT
ParseVTTStep ==
    /\ format = "vtt"
    /\ spc = "parsing"
    /\ subPos <= Len(content)
    /\ LET after == ParseVTTLine(cue, entries, content[subPos])
       IN  cue' = after.cue /\ entries' = after.entries
    /\ subPos' = subPos + 1
    /\ UNCHANGED <<content, format, spc, sourceEntries>>
    /\ UNCHANGED <<timingVars, convVars, engineVars, emotionVars, mixerVars, promptVars, rerunVars, registryVars, processorVars, scriptVars>>

\* parseVTT after the loop: the last cue is saved and the track returned
ParseVTTReturn ==
    /\ format = "vtt"
    /\ spc = "parsing"
    /\ subPos > Len(content)
    /\ LET saved == SaveCue(cue, entries)
       IN  cue' = saved.cue /\ entries' = saved.entries
    /\ spc' = "done"
    /\ UNCHANGED <<content, format, subPos, sourceEntries>>
    /\ UNCHANGED <<timingVars, convVars, engineVars, emotionVars, mixerVars, promptVars, rerunVars, registryVars, processorVars, scriptVars>>

SubtitleNext ==
    \/ ParseSRTStep
    \/ ExportToSubtitle
    \/ ParseSRTReturn
    \/ ParseVTTStep
    \/ ParseVTTReturn

SubtitleSpec == SubtitleInit /\ [][SubtitleNext]_vars

\* ---------------------------------------------------------------------------
\* parseVoicePrompt (prompt-parser.ts)
\* ---------------------------------------------------------------------------

\* words of one prompt
MaxPromptWords == 3

\* String.prototype.includes
Includes(s, keyword) ==
    \E i \in 1..(Len(s) - Len(keyword) + 1) : SubSeq(s, i, i + Len(keyword) - 1) = keyword

\* the letters of the strings below in both cases
Letters ==
    {<<"a", "A">>, <<"b", "B">>, <<"c", "C">>, <<"e", "E">>, <<"g", "G">>,
     <<"i", "I">>, <<"l", "L">>, <<"m", "M">>, <<"o", "O">>}

\* the lower-case form of one character
LowerChar(c) ==
    IF \E pair \in Letters : pair[2] = c
    THEN (CHOOSE pair \in Letters : pair[2] = c)[1]
    ELSE c

\* the upper-case form of one character
UpperChar(c) ==
    IF \E pair \in Letters : pair[1] = c
    THEN (CHOOSE pair \in Letters : pair[1] = c)[2]
    ELSE c

\* String.prototype.toLowerCase
RECURSIVE ToLowerCase(_)
ToLowerCase(s) ==
    IF Len(s) = 0 THEN ""
    ELSE LowerChar(SubSeq(s, 1, 1)) \o ToLowerCase(SubSeq(s, 2, Len(s)))

\* String.prototype.toUpperCase
RECURSIVE ToUpperCase(_)
ToUpperCase(s) ==
    IF Len(s) = 0 THEN ""
    ELSE UpperChar(SubSeq(s, 1, 1)) \o ToUpperCase(SubSeq(s, 2, Len(s)))

\* replace(/\s+/g, '_') on a string whose words are one space apart
RECURSIVE Underscored(_)
Underscored(s) ==
    IF Len(s) = 0 THEN ""
    ELSE (IF SubSeq(s, 1, 1) = " " THEN "_" ELSE SubSeq(s, 1, 1))
         \o Underscored(SubSeq(s, 2, Len(s)))

\* keywords.some(keyword => lowerPrompt.includes(keyword))
IncludesSome(s, keywords) == \E keyword \in keywords : Includes(s, keyword)

\* the gender rules, applied one after the other
Gender(lowerPrompt) ==
    LET g1 == IF Includes(lowerPrompt, "male") /\ ~Includes(lowerPrompt, "female")
              THEN "male" ELSE "neutral"
        g2 == IF Includes(lowerPrompt, "female") THEN "female" ELSE g1
        g3 == IF Includes(lowerPrompt, "woman") THEN "female" ELSE g2
    IN  IF Includes(lowerPrompt, "man") /\ ~Includes(lowerPrompt, "woman") THEN "male" ELSE g3

\* the age groups in the order of their if statements
AgeGroups ==
    << [name |-> "child", keywords |-> {"child", "kid"}],
       [name |-> "young", keywords |-> {"young", "teen"}],
       [name |-> "senior", keywords |-> {"old", "senior", "elderly"}] >>

\* the age rules, applied one after the other: a later if overwrites
Age(lowerPrompt) ==
    LET a1 == IF IncludesSome(lowerPrompt, AgeGroups[1].keywords) THEN "child" ELSE "adult"
        a2 == IF IncludesSome(lowerPrompt, AgeGroups[2].keywords) THEN "young" ELSE a1
    IN  IF IncludesSome(lowerPrompt, AgeGroups[3].keywords) THEN "senior" ELSE a2

\* the accents object, in the order of its keys
Accents ==
    << [name |-> "australian", keywords |-> {"australian", "aussie"}],
       [name |-> "british", keywords |-> {"british", "uk", "english", "london"}],
       [name |-> "american", keywords |-> {"american", "us", "usa"}],
       [name |-> "irish", keywords |-> {"irish", "ireland"}],
       [name |-> "scottish", keywords |-> {"scottish", "scotland"}],
       [name |-> "southern", keywords |-> {"southern", "texan", "georgia"}],
       [name |-> "new york", keywords |-> {"new york", "brooklyn", "bronx"}],
       [name |-> "california", keywords |-> {"california", "valley", "surfer"}] >>

\* the loop over Object.entries(accents), left at the first hit
RECURSIVE AccentFrom(_, _)
AccentFrom(lowerPrompt, k) ==
    IF k > Len(Accents) THEN "neutral"
    ELSE IF IncludesSome(lowerPrompt, Accents[k].keywords) THEN Accents[k].name
    ELSE AccentFrom(lowerPrompt, k + 1)

Accent(lowerPrompt) == AccentFrom(lowerPrompt, 1)

\* the personalityMap object, in the order of its keys
PersonalityMap ==
    << [name |-> "cheerful", keywords |-> {"cheerful", "happy", "joyful", "upbeat"}],
       [name |-> "calm", keywords |-> {"calm", "peaceful", "serene", "relaxed", "soothing"}],
       [name |-> "energetic", keywords |-> {"energetic", "excited", "dynamic", "lively"}],
       [name |-> "wise", keywords |-> {"wise", "contemplative", "thoughtful", "sage"}],
       [name |-> "friendly", keywords |-> {"friendly", "warm", "welcoming", "kind"}],
       [name |-> "professional", keywords |-> {"professional", "business", "corporate", "formal"}],
       [name |-> "dramatic", keywords |-> {"dramatic", "theatrical", "expressive"}],
       [name |-> "mysterious", keywords |-> {"mysterious", "enigmatic", "secretive"}],
       [name |-> "confident", keywords |-> {"confident", "assertive", "strong"}],
       [name |-> "gentle", keywords |-> {"gentle", "soft", "tender", "caring"}] >>

\* the loop over Object.entries(personalityMap): every hit is pushed
RECURSIVE PersonalityFrom(_, _)
PersonalityFrom(lowerPrompt, k) ==
    IF k > Len(PersonalityMap) THEN <<>>
    ELSE (IF IncludesSome(lowerPrompt, PersonalityMap[k].keywords)
          THEN <<PersonalityMap[k].name>> ELSE <<>>)
         \o PersonalityFrom(lowerPrompt, k + 1)

Personality(lowerPrompt) == PersonalityFrom(lowerPrompt, 1)

\* the timbre groups in the order of the if / else if
TimbreGroups ==
    << [name |-> "deep", keywords |-> {"deep", "low", "bass"}],
       [name |-> "high", keywords |-> {"high", "light", "soprano"}] >>

Timbre(lowerPrompt) ==
    IF IncludesSome(lowerPrompt, TimbreGroups[1].keywords) THEN "deep"
    ELSE IF IncludesSome(lowerPrompt, TimbreGroups[2].keywords) THEN "high"
    ELSE "medium"

\* the pace groups in the order of the if / else if
PaceGroups ==
    << [name |-> "slow", keywords |-> {"slow", "relaxed", "leisurely"}],
       [name |-> "fast", keywords |-> {"fast", "quick", "rapid"}] >>

Pace(lowerPrompt) ==
    IF IncludesSome(lowerPrompt, PaceGroups[1].keywords) THEN "slow"
    ELSE IF IncludesSome(lowerPrompt, PaceGroups[2].keywords) THEN "fast"
    ELSE "normal"

\* personality.includes(trait)
HasTrait(personality, trait) == \E k \in 1..Len(personality) : personality[k] = trait

DefaultEmotionType(personality) ==
    IF HasTrait(personality, "cheerful") THEN "happy"
    ELSE IF HasTrait(personality, "calm") THEN "calm"
    ELSE IF HasTrait(personality, "energetic") THEN "excited"
    ELSE IF HasTrait(personality, "dramatic") THEN "excited"
    ELSE "neutral"

ParseVoicePrompt(p) ==
    LET lowerPrompt == ToLowerCase(p)
        personality == Personality(lowerPrompt)
    IN  [gender |-> Gender(lowerPrompt), age |-> Age(lowerPrompt),
         accent |-> Accent(lowerPrompt), personality |-> personality,
         defaultEmotion |-> DefaultEmotionType(personality),
         timbre |-> Timbre(lowerPrompt), pace |-> Pace(lowerPrompt)]

\* the words prompts are made of
PromptWords ==
    {"female", "Male", "man", "woman", "German", "young", "child", "old",
     "British", "american", "high", "slow", "fast", "cheerful"}

\* the prompts of n words, the words one space apart
RECURSIVE Prompts(_)
Prompts(n) ==
    IF n = 1 THEN PromptWords
    ELSE {p \o " " \o w : p \in Prompts(n - 1), w \in PromptWords}

PromptInit ==
    /\ \E n \in 1..MaxPromptWords : prompt \in Prompts(n)
    /\ ppc = "called"
    /\ characteristics = NoCharacteristics
    /\ ConvIdle
    /\ EngineIdle
    /\ EmotionIdle
    /\ MixerIdle
    /\ SubtitleIdle
    /\ RerunIdle
    /\ RegistryIdle
    /\ ProcessorIdle
    /\ ScriptIdle
    /\ dialogue = <<>>
    /\ processed = <<>>
    /\ idx = 1
    /\ currentTime = 0

\* the call runs to its return statement
ParseVoicePromptCall ==
    /\ ppc = "called"
    /\ characteristics' = ParseVoicePrompt(prompt)
    /\ ppc' = "returned"
    /\ UNCHANGED prompt
    /\ UNCHANGED <<timingVars, convVars, engineVars, emotionVars, mixerVars, subtitleVars, rerunVars, registryVars, processorVars, scriptVars>>

PromptNext == ParseVoicePromptCall

PromptSpec == PromptInit /\ [][PromptNext]_vars

\* ---------------------------------------------------------------------------
\* processDialogueTiming called twice on one dialogue array: the copy
\* [...dialogue] holds the same line objects, so the second call reads the
\* timing fields the first call wrote
\* ---------------------------------------------------------------------------

RerunInit ==
    /\ \E n \in 1..MaxLines, overlaps \in BOOLEAN :
          dialogue \in TimingDialogues(n, overlaps)
    /\ processed = dialogue
    /\ idx = 1
    /\ currentTime = 0
    /\ run = 1
    /\ firstRun = <<>>
    /\ ConvIdle
    /\ EngineIdle
    /\ EmotionIdle
    /\ MixerIdle
    /\ SubtitleIdle
    /\ PromptIdle
    /\ RegistryIdle
    /\ ProcessorIdle
    /\ ScriptIdle

\* the first call has returned; the second call copies the array of the same
\* line objects and starts its loop
SecondCall ==
    /\ run = 1
    /\ idx = Len(processed) + 1
    /\ firstRun' = processed
    /\ run' = 2
    /\ idx' = 1
    /\ currentTime' = 0
    /\ UNCHANGED <<dialogue, processed>>
    /\ UNCHANGED <<convVars, engineVars, emotionVars, mixerVars, subtitleVars, promptVars, registryVars, processorVars, scriptVars>>

RerunNext ==
    \/ TimingStep
    \/ SecondCall

RerunSpec == RerunInit /\ [][RerunNext]_vars

\* ---------------------------------------------------------------------------
\* CharacterManager: the operations on the characters Map
\* ---------------------------------------------------------------------------

\* operations called on one manager
MaxOps == 3

\* the Map is a function from the ids in use to the characters; the empty Map
\* is the empty function
EmptyMap == <<>>
Has(map, id) == id \in DOMAIN map
MapSet(map, id, character) ==
    [k \in (DOMAIN map) \cup {id} |-> IF k = id THEN character ELSE map[k]]

\* the ids callers pass ("": a missing id)
RegistryIds == {"alice", "bob", ""}
\* the names callers pass to the create operations
RegistryNames == {"Alice", "alice", "Bob"}
\* the voiceTemplates Map has the key; or not
TemplateNames == {"narrator", "unknown"}

\* a character: `made` tells the object apart from every other character
\* (the number of the operation that built it), `revision` counts the
\* updates of its personality
Character(id, name, made) == [id |-> id, name |-> name, made |-> made, revision |-> 0]

\* name.toLowerCase().replace(/\s+/g, '_')
IdFromName(name) == Underscored(ToLowerCase(name))

\* validateCharacter: "ok" or the error thrown (voiceProfile and personality
\* are present on every character the operations build)
ValidateCharacter(map, character) ==
    IF character.id = "" \/ character.name = "" THEN "no_id_or_name"
    ELSE IF Has(map, character.id) THEN "already_exists"
    ELSE "ok"

\* addCharacter: the Map after it (unchanged when validateCharacter throws)
AddCharacter(map, character) ==
    IF ValidateCharacter(map, character) = "ok"
    THEN MapSet(map, character.id, character)
    ELSE map

Called(op, id, threw) ==
    /\ lastOp' = [op |-> op, id |-> id, threw |-> threw, inUse |-> Has(characterMap, id)]
    /\ previous' = characterMap
    /\ opCount' = opCount + 1

RegistryInit ==
    /\ characterMap = EmptyMap
    /\ previous = EmptyMap
    /\ lastOp = NoOp
    /\ opCount = 0
    /\ ConvIdle
    /\ EngineIdle
    /\ EmotionIdle
    /\ MixerIdle
    /\ SubtitleIdle
    /\ PromptIdle
    /\ RerunIdle
    /\ ProcessorIdle
    /\ ScriptIdle
    /\ dialogue = <<>>
    /\ processed = <<>>
    /\ idx = 1
    /\ currentTime = 0

\* addCharacter(character) and importCharacter(characterData), which only
\* calls it
AddCharacterCall ==
    /\ opCount < MaxOps
    /\ \E id \in RegistryIds :
          LET character == Character(id, "Added", opCount + 1)
          IN  /\ characterMap' = AddCharacter(characterMap, character)
              /\ Called("addCharacter", id, ValidateCharacter(characterMap, character) # "ok")
    /\ UNCHANGED <<timingVars, convVars, engineVars, emotionVars, mixerVars, subtitleVars, promptVars, rerunVars, processorVars, scriptVars>>

\* createCharacterFromDescription(name, voiceDescription)
CreateCharacterFromDescription ==
    /\ opCount < MaxOps
    /\ \E name \in RegistryNames :
          LET character == Character(IdFromName(name), name, opCount + 1)
          IN  /\ characterMap' = AddCharacter(characterMap, character)
              /\ Called("createCharacterFromDescription", character.id,
                        ValidateCharacter(characterMap, character) # "ok")
    /\ UNCHANGED <<timingVars, convVars, engineVars, emotionVars, mixerVars, subtitleVars, promptVars, rerunVars, processorVars, scriptVars>>

\* createCharacterFromTemplate(name, templateName, customizations): the
\* customizations are spread last and may carry an id
CreateCharacterFromTemplate ==
    /\ opCount < MaxOps
    /\ \E name \in RegistryNames, templateName \in TemplateNames,
          customId \in {"none", "alice"} :
          LET id == IF customId = "none" THEN IdFromName(name) ELSE customId
              character == Character(id, name, opCount + 1)
          IN  IF templateName = "unknown"
              THEN /\ characterMap' = characterMap
                   /\ Called("createCharacterFromTemplate", id, TRUE)
              ELSE /\ characterMap' = AddCharacter(characterMap, character)
                   /\ Called("createCharacterFromTemplate", id,
                             ValidateCharacter(characterMap, character) # "ok")
    /\ UNCHANGED <<timingVars, convVars, engineVars, emotionVars, mixerVars, subtitleVars, promptVars, rerunVars, processorVars, scriptVars>>

\* cloneCharacter(sourceId, newId, newName): the clone is put into the Map
\* with characters.set, validateCharacter is not called
CloneCharacter ==
    /\ opCount < MaxOps
    /\ \E sourceId \in RegistryIds, newId \in RegistryIds :
          IF ~Has(characterMap, sourceId)
          THEN /\ characterMap' = characterMap
               /\ Called("cloneCharacter", newId, TRUE)
          ELSE /\ characterMap' = MapSet(characterMap, newId,
                       [characterMap[sourceId] EXCEPT !.id = newId, !.name = "Cloned",
                                                  !.made = opCount + 1])
               /\ Called("cloneCharacter", newId, FALSE)
    /\ UNCHANGED <<timingVars, convVars, engineVars, emotionVars, mixerVars, subtitleVars, promptVars, rerunVars, processorVars, scriptVars>>

\* updateCharacterPersonality(characterId, personality): the character object
\* stays, its personality is replaced
UpdateCharacterPersonality ==
    /\ opCount < MaxOps
    /\ \E characterId \in RegistryIds :
          IF ~Has(characterMap, characterId)
          THEN /\ characterMap' = characterMap
               /\ Called("updateCharacterPersonality", characterId, TRUE)
          ELSE /\ characterMap' = [characterMap EXCEPT ![characterId].revision = @ + 1]
               /\ Called("updateCharacterPersonality", characterId, FALSE)
    /\ UNCHANGED <<timingVars, convVars, engineVars, emotionVars, mixerVars, subtitleVars, promptVars, rerunVars, processorVars, scriptVars>>

\* clear()
ClearCharacters ==
    /\ opCount < MaxOps
    /\ characterMap' = EmptyMap
    /\ Called("clear", "", FALSE)
    /\ UNCHANGED <<timingVars, convVars, engineVars, emotionVars, mixerVars, subtitleVars, promptVars, rerunVars, processorVars, scriptVars>>

RegistryNext ==
    \/ AddCharacterCall
    \/ CreateCharacterFromDescription
    \/ CreateCharacterFromTemplate
    \/ CloneCharacter
    \/ UpdateCharacterPersonality
    \/ ClearCharacters

RegistrySpec == RegistryInit /\ [][RegistryNext]_vars

\* ---------------------------------------------------------------------------
\* AudioProcessor.process: two calls in flight on one processor
\* ---------------------------------------------------------------------------

\* milliseconds the clock may advance while the calls run
MaxClock == 1

\* the two process() calls; call j is handed the buffer j
Jobs == {1, 2}
Formats == {"mp3", "wav"}

\* path.join(tempDir, `input_${Date.now()}.mp3`) and
\* path.join(tempDir, `output_${Date.now()}.${options.format}`)
InputPath(t) == [kind |-> "input", t |-> t, ext |-> "mp3"]
OutputPath(t, fmt) == [kind |-> "output", t |-> t, ext |-> fmt]
Paths == {InputPath(t) : t \in 0..MaxClock}
             \cup {OutputPath(t, fmt) : t \in 0..MaxClock, fmt \in Formats}

\* a path without a file, a written buffer, and what ffmpeg makes of a buffer
NoFile == [exists |-> FALSE, buffer |-> 0, format |-> "none"]
Written(buffer) == [exists |-> TRUE, buffer |-> buffer, format |-> "raw"]
Processed(buffer, fmt) == [exists |-> TRUE, buffer |-> buffer, format |-> fmt]

\* a call that has not been made
NewJob(fmt) ==
    [pc |-> "idle", format |-> fmt, inputPath |-> InputPath(0),
     outputPath |-> OutputPath(0, fmt), processedBuffer |-> NoFile,
     outcome |-> "none"]

\* cleanup(files): fs.unlink of each, errors ignored
Cleanup(fs, paths) == [path \in DOMAIN fs |-> IF path \in paths THEN NoFile ELSE fs[path]]

ProcessorInit ==
    /\ clock = 0
    /\ files = [path \in Paths |-> NoFile]
    /\ jobs \in {[j \in Jobs |-> NewJob(f[j])] : f \in [Jobs -> Formats]}
    /\ ConvIdle
    /\ EngineIdle
    /\ EmotionIdle
    /\ MixerIdle
    /\ SubtitleIdle
    /\ PromptIdle
    /\ RerunIdle
    /\ RegistryIdle
    /\ ScriptIdle
    /\ dialogue = <<>>
    /\ processed = <<>>
    /\ idx = 1
    /\ currentTime = 0

\* a millisecond passes
Tick ==
    /\ clock < MaxClock
    /\ clock' = clock + 1
    /\ UNCHANGED <<files, jobs>>
    /\ UNCHANGED <<timingVars, convVars, engineVars, emotionVars, mixerVars, subtitleVars, promptVars, rerunVars, registryVars, scriptVars>>

\* process() is called: both paths are named from Date.now() and the write of
\* the input file is started
ProcessCall(j) ==
    /\ jobs[j].pc = "idle"
    /\ jobs' = [jobs EXCEPT ![j].pc = "writing",
                            ![j].inputPath = InputPath(clock),
                            ![j].outputPath = OutputPath(clock, jobs[j].format)]
    /\ UNCHANGED <<clock, files>>
    /\ UNCHANGED <<timingVars, convVars, engineVars, emotionVars, mixerVars, subtitleVars, promptVars, rerunVars, registryVars, scriptVars>>

\* fs.writeFile(inputPath, audioBuffer) completes
WriteInput(j) ==
    /\ jobs[j].pc = "writing"
    /\ files' = [files EXCEPT ![jobs[j].inputPath] = Written(j)]
    /\ jobs' = [jobs EXCEPT ![j].pc = "converting"]
    /\ UNCHANGED clock
    /\ UNCHANGED <<timingVars, convVars, engineVars, emotionVars, mixerVars, subtitleVars, promptVars, rerunVars, registryVars, scriptVars>>

\* processWithFFmpeg: ffmpeg reads the input file and saves the output file;
\* it rejects when there is no input file
ProcessWithFFmpeg(j) ==
    /\ jobs[j].pc = "converting"
    /\ IF files[jobs[j].inputPath].exists
       THEN /\ files' = [files EXCEPT ![jobs[j].outputPath] =
                            Processed(files[jobs[j].inputPath].buffer, jobs[j].format)]
            /\ jobs' = [jobs EXCEPT ![j].pc = "reading"]
       ELSE /\ files' = files
            /\ jobs' = [jobs EXCEPT ![j].pc = "failing"]
    /\ UNCHANGED clock
    /\ UNCHANGED <<timingVars, convVars, engineVars, emotionVars, mixerVars, subtitleVars, promptVars, rerunVars, registryVars, scriptVars>>

\* fs.readFile(outputPath): rejects when there is no output file
ReadOutput(j) ==
    /\ jobs[j].pc = "reading"
    /\ IF files[jobs[j].outputPath].exists
       THEN jobs' = [jobs EXCEPT ![j].pc = "cleaning",
                                 ![j].processedBuffer = files[jobs[j].outputPath]]
       ELSE jobs' = [jobs EXCEPT ![j].pc = "failing"]
    /\ UNCHANGED <<clock, files>>
    /\ UNCHANGED <<timingVars, convVars, engineVars, emotionVars, mixerVars, subtitleVars, promptVars, rerunVars, registryVars, scriptVars>>

\* cleanup([inputPath, outputPath]) and return processedBuffer
CleanupAndReturn(j) ==
    /\ jobs[j].pc = "cleaning"
    /\ files' = Cleanup(files, {jobs[j].inputPath, jobs[j].outputPath})
    /\ jobs' = [jobs EXCEPT ![j].pc = "done", ![j].outcome = "returned"]
    /\ UNCHANGED clock
    /\ UNCHANGED <<timingVars, convVars, engineVars, emotionVars, mixerVars, subtitleVars, promptVars, rerunVars, registryVars, scriptVars>>

\* the catch block: cleanup([inputPath, outputPath]) and throw
CleanupAndThrow(j) ==
    /\ jobs[j].pc = "failing"
    /\ files' = Cleanup(files, {jobs[j].inputPath, jobs[j].outputPath})
    /\ jobs' = [jobs EXCEPT ![j].pc = "done", ![j].outcome = "threw"]
    /\ UNCHANGED clock
    /\ UNCHANGED <<timingVars, convVars, engineVars, emotionVars, mixerVars, subtitleVars, promptVars, rerunVars, registryVars, scriptVars>>

ProcessorNext ==
    \/ Tick
    \/ \E j \in Jobs : ProcessCall(j)
    \/ \E j \in Jobs : WriteInput(j)
    \/ \E j \in Jobs : ProcessWithFFmpeg(j)
    \/ \E j \in Jobs : ReadOutput(j)
    \/ \E j \in Jobs : CleanupAndReturn(j)
    \/ \E j \in Jobs : CleanupAndThrow(j)

ProcessorSpec == ProcessorInit /\ [][ProcessorNext]_vars

\* ---------------------------------------------------------------------------
\* ConversationManager.generateFromScript
\* ---------------------------------------------------------------------------

\* lines of one script
MaxScriptLines == 3

\* the names in front of the colon of a script line
ScriptNames == {"Alice", "BOB", "Al B"}

\* a script line `Name: text`
ScriptLine(name, wordCount) == [name |-> name, wordCount |-> wordCount]
ScriptLines(i) == {ScriptLine(name, wc) : name \in ScriptNames, wc \in {1, 3}}

\* /^\w+:\s+/: the name is one word
IsChatLine(line) == ~Includes(line.name, " ")

\* detectScriptFormat: chat when more than 2 lines are `word: text`; the
\* scripts here carry no screenplay or novel marks
DetectScriptFormat(lines) ==
    IF Cardinality({k \in 1..Len(lines) : IsChatLine(lines[k])}) > 2
    THEN "chat" ELSE "script"

\* name.trim().toUpperCase().replace(/\s+/g, '_')
NormalizeCharacterName(name) == Underscored(ToUpperCase(name))

\* the character of a parsed line: parseChatFormat normalizes the name,
\* parsePlayScript only trims and upper-cases it
ParsedCharacter(fmt, line) ==
    IF fmt = "chat" THEN NormalizeCharacterName(line.name) ELSE ToUpperCase(line.name)

\* the lines a parser keeps: parseChatFormat matches /^(\w+):\s*(.+)$/ only
RECURSIVE ParsedLines(_, _)
ParsedLines(fmt, lines) ==
    IF lines = <<>> THEN <<>>
    ELSE (IF fmt = "chat" /\ ~IsChatLine(Head(lines)) THEN <<>>
          ELSE <<[character |-> ParsedCharacter(fmt, Head(lines)),
                  wordCount |-> Head(lines).wordCount]>>)
         \o ParsedLines(fmt, Tail(lines))

\* the Set of characters in insertion order
RECURSIVE ParsedCharacters(_, _)
ParsedCharacters(parsed, seen) ==
    IF parsed = <<>> THEN seen
    ELSE ParsedCharacters(Tail(parsed),
                          IF Head(parsed).character \in Range(seen) THEN seen
                          ELSE Append(seen, Head(parsed).character))

\* parseScript
ParseScript(lines) ==
    LET fmt == DetectScriptFormat(lines)
        parsed == ParsedLines(fmt, lines)
    IN  [characters |-> ParsedCharacters(parsed, <<>>), lines |-> parsed, formatType |-> fmt]

\* the loop over parseResult.characters from the k-th name on:
\* createCharacterFromDescription registers each character in the manager
\* (addCharacter throws when the id is in use)
RECURSIVE CreateCharacters(_, _, _, _)
CreateCharacters(manager, names, k, made) ==
    IF k > Len(names) THEN [characters |-> manager, created |-> made, error |-> "ok"]
    ELSE IF IdFromName(names[k]) \in manager
         THEN [characters |-> manager, created |-> made, error |-> "character_exists"]
    ELSE CreateCharacters(manager \cup {IdFromName(names[k])}, names, k + 1,
                          Append(made, IdFromName(names[k])))

\* parseResult.lines.map(...): the dialogue of the plan
ScriptDialogue(parsed) ==
    [k \in 1..Len(parsed) |->
        InputLine(k, parsed[k].character, parsed[k].wordCount,
                  IF k = 1 THEN 0 ELSE 500, 300, Undefined, Undefined, NoOverlap, <<>>)]

ScriptInit ==
    /\ \E n \in 0..MaxScriptLines : script \in SeqsOver(n, ScriptLines)
    /\ gpc = "idle"
    /\ ConvIdle
    /\ EngineIdle
    /\ EmotionIdle
    /\ MixerIdle
    /\ SubtitleIdle
    /\ PromptIdle
    /\ RerunIdle
    /\ RegistryIdle
    /\ ProcessorIdle
    /\ dialogue = <<>>
    /\ processed = <<>>
    /\ idx = 1
    /\ currentTime = 0

\* generateFromScript(script, characterVoices) on a new ConversationManager:
\* it parses, creates the characters, builds the plan and returns
\* generateConversation(request), which runs to its first generateVoice call
\* or rejects
GenerateFromScript ==
    /\ gpc = "idle"
    /\ LET parseResult == ParseScript(script)
           made == CreateCharacters(characters, parseResult.characters, 1, <<>>)
           config == [characters |-> made.created,
                      dialogue |-> ScriptDialogue(parseResult.lines)]
           a == AcceptRequest(made.characters, config)
       IN  IF made.error # "ok"
           THEN /\ request' = [characters |-> made.created, dialogue |-> <<>>]
                /\ cpc' = "returned"
                /\ characters' = made.characters
                /\ processedDialogue' = <<>>
                /\ pending' = <<>>
                /\ result' = [status |-> "rejected", error |-> made.error]
           ELSE /\ request' = config
                /\ cpc' = a.cpc
                /\ characters' = a.characters
                /\ processedDialogue' = a.processedDialogue
                /\ pending' = a.pending
                /\ result' = a.result
    /\ calls' = <<>>
    /\ gpc' = "called"
    /\ UNCHANGED script
    /\ UNCHANGED <<timingVars, engineVars, emotionVars, mixerVars, subtitleVars, promptVars, rerunVars, registryVars, processorVars>>

ScriptNext == GenerateFromScript

ScriptSpec == ScriptInit /\ [][ScriptNext]_vars

\* ---------------------------------------------------------------- C3, C4

\* a line carries an Overlap: the field is there and switched on
CarriesOverlap(line) == line.overlap.present /\ line.overlap.enabled

PauseBeforeOf(lines, i) ==
    IF lines[i].pauseBefore # Undefined THEN lines[i].pauseBefore
    ELSE IF i = 1 THEN 0 ELSE PauseBetweenLines

PauseAfterOf(lines, i) ==
    IF lines[i].pauseAfter # Undefined THEN lines[i].pauseAfter ELSE 0

\* speed multiplier in percent, 1.0 when absent
SpeedOf(lines, i) ==
    IF lines[i].speedModifier # Undefined THEN lines[i].speedModifier ELSE 100

\* C4: in a plan without overlaps the first line starts at its pause_before,
\* each later line at the previous end + the previous pause_after + its own
\* pause_before, each end is start + (word_count / 3 * 1000) / speed; starts
\* strictly increase and no line starts before the previous one ends.
C4_CursorRule ==
    (\A k \in 1..Len(dialogue) : ~dialogue[k].overlap.present) =>
        \A i \in 1..(idx - 1) :
            /\ processed[i].startTime =
                  (IF i = 1 THEN 0
                   ELSE processed[i - 1].endTime + PauseAfterOf(dialogue, i - 1))
                  + PauseBeforeOf(dialogue, i)
            /\ (processed[i].endTime - processed[i].startTime) * 3 * SpeedOf(dialogue, i)
                  = dialogue[i].wordCount * 1000 * 100
            /\ i > 1 =>
                  /\ processed[i].startTime > processed[i - 1].startTime
                  /\ processed[i].startTime >= processed[i - 1].endTime

\* a later line with no pause_before of its own and a speed multiplier, after
\* a line with a pause_after, has been timed
C4_Witness ==
    /\ TimingDone
    /\ Len(dialogue) >= 2
    /\ \A k \in 1..Len(dialogue) : ~dialogue[k].overlap.present
    /\ dialogue[2].pauseBefore = Undefined
    /\ dialogue[2].speedModifier = 200
    /\ dialogue[1].pauseAfter = 200
    /\ processed[2].startTime = processed[1].endTime + 200 + PauseBetweenLines

\* ------------------------------------------------------- C1, C2, C5, C6

\* a zero-filled PCM buffer of the given duration
ZeroFilled(ms) == [kind |-> "zeros", ms |-> ms]

\* the segments of all tracks of a result
SegmentsOf(res) ==
    UNION {Range(res.audioTracks[t].segments) : t \in 1..Len(res.audioTracks)}

FailedLines == {calls[k][1] : k \in {j \in 1..Len(calls) : calls[j][2] = "throw"}}
CalledLines == {calls[k][1] : k \in 1..Len(calls)}

\* C1 (as claimed): when the provider call of some line fails, the call still
\* returns a result, the failed line's segment holds a zero-filled buffer of
\* the line's estimated duration, and every line of the plan is synthesized.
C1_SynthesisErrorNonFatal ==
    (cpc = "returned" /\ FailedLines # {}) =>
        /\ result.status = "ok"
        /\ \A k \in FailedLines :
              \E seg \in SegmentsOf(result) :
                  /\ seg.lineId = processedDialogue[k].id
                  /\ seg.audioBuffer =
                        ZeroFilled(EstimatedDuration(processedDialogue[k].wordCount))
        /\ CalledLines = 1..Len(processedDialogue)

Priority(type) ==
    CASE type = "line_start" -> 1
      [] type = "overlap_start" -> 2
      [] type = "emotion_change" -> 3
      [] type = "overlap_end" -> 4
      [] type = "line_end" -> 5

\* C2 (as claimed): the event log is ordered by (time, kind priority), with
\* line_start < overlap_start < emotion_change < overlap_end < line_end.
C2_TimeThenPriority ==
    result.status = "ok" =>
        LET ev == result.timeline.events
        IN  \A k \in 1..(Len(ev) - 1) :
                \/ ev[k].time < ev[k + 1].time
                \/ /\ ev[k].time = ev[k + 1].time
                   /\ Priority(ev[k].type) <= Priority(ev[k + 1].type)

\* the place of an event in the order the events were pushed: line by line,
\* and for each line line_start, line_end, emotion_change, overlap_start,
\* overlap_end
PushRank(e) ==
    LET kind == CASE e.type = "line_start" -> 1
                  [] e.type = "line_end" -> 2
                  [] e.type = "emotion_change" -> 3
                  [] e.type = "overlap_start" -> 4
                  [] e.type = "overlap_end" -> 5
    IN  FindLine(processedDialogue, e.lineId) * 10 + kind

\* C2 (amended): the event log is ordered by time, and events of equal time
\* stand in the order they were pushed (line order, then line_start, line_end,
\* emotion_change, overlap_start, overlap_end within a line).
C2_TimeThenPushOrder ==
    result.status = "ok" =>
        LET ev == result.timeline.events
        IN  \A k \in 1..(Len(ev) - 1) :
                \/ ev[k].time < ev[k + 1].time
                \/ /\ ev[k].time = ev[k + 1].time
                   /\ PushRank(ev[k]) < PushRank(ev[k + 1])

\* a log in which sorting moved an event and two events of different lines
\* share a time
C2_Witness ==
    /\ result.status = "ok"
    /\ LET ev == result.timeline.events
       IN  /\ ev # PushedEvents(processedDialogue)
           /\ \E k \in 1..(Len(ev) - 1) :
                 /\ ev[k].time = ev[k + 1].time
                 /\ ev[k].lineId # ev[k + 1].lineId

\* what makes a plan invalid
DuplicateCharacterIds(config) ==
    \E a, b \in 1..Len(config.characters) :
        a # b /\ config.characters[a] = config.characters[b]

UnknownCharacterReferenced(config) ==
    \E k \in 1..Len(config.dialogue) :
        config.dialogue[k].characterId \notin Range(config.characters)

UnresolvedOverlapTarget(config) ==
    \E k \in 1..Len(config.dialogue) :
        /\ config.dialogue[k].overlap.present
        /\ \A m \in 1..Len(config.dialogue) :
              config.dialogue[m].id # config.dialogue[k].overlap.targetLineId

InvalidPlan(config) ==
    \/ DuplicateCharacterIds(config)
    \/ UnknownCharacterReferenced(config)
    \/ UnresolvedOverlapTarget(config)

\* C5: a plan with a duplicated character id, a line of an unknown character
\* or an overlap whose target is no line of the plan is rejected, and no
\* provider call is made for it.
C5_ValidationUpFront ==
    InvalidPlan(request) =>
        /\ cpc # "synth"
        /\ calls = <<>>
        /\ cpc = "returned" => result.status = "rejected"

\* a plan whose only defect is a duplicated character id has been rejected
\* before any provider call
C5_Witness ==
    /\ cpc = "returned"
    /\ DuplicateCharacterIds(request)
    /\ ~UnknownCharacterReferenced(request)
    /\ ~UnresolvedOverlapTarget(request)
    /\ Len(request.dialogue) > 0
    /\ result = [status |-> "rejected", error |-> "character_exists"]
    /\ characters = Range(request.characters)
    /\ calls = <<>>

\* C6 (as claimed): whatever calls came before, a call with a valid plan goes
\* as it would on a fresh manager.
C6_RegistryPerRequest ==
    [][(cpc = "idle" /\ cpc' # "idle" /\ ~InvalidPlan(request')
            /\ request'.characters # <<>> /\ request'.dialogue # <<>>) =>
        LET fresh == AcceptRequest({}, request')
        IN  /\ cpc' = fresh.cpc
            /\ result' = fresh.result
            /\ processedDialogue' = fresh.processedDialogue
            /\ pending' = fresh.pending]_vars

\* ------------------------------------------------------ C7, C8, C9, C10

\* C7 (as claimed): each configured provider's initialize() is run at most
\* once, and once the engine is initialized no step adds, removes or replaces
\* a registered provider.
C7_InitializedOnce ==
    [][/\ \A p \in ProviderNames : initRuns'[p] <= 1
       /\ initialized => providers' = providers]_vars

\* the buffer that request k of a batch produced stands at index k
AlignedAt(tk, k) ==
    IF tk.outcomes[k] = "ok"
    THEN /\ tk.results[k].kind = "audio"
         /\ tk.results[k].request = tk.requests[k]
    ELSE tk.results[k] = EmptyBuffer

\* C8: generateBatch has one buffer per request it went through, buffer k
\* being the audio of request k or a zero-length buffer when request k failed;
\* it ends without an error, with as many buffers as requests, every request
\* attempted.
C8_BatchAligned ==
    LET tk == tasks[1]
    IN  tk.op = "generateBatch" =>
            /\ Len(tk.outcomes) = tk.i - 1
            /\ Len(tk.results) = Len(tk.outcomes)
            /\ \A k \in 1..Len(tk.results) : AlignedAt(tk, k)
            /\ tk.pc = "done" =>
                  /\ tk.status = "ok"
                  /\ Len(tk.results) = Len(tk.requests)

\* a batch has ended whose first request failed because no provider was
\* available and whose second request was spoken
C8_Witness ==
    LET tk == tasks[1]
    IN  /\ tk.op = "generateBatch"
        /\ tk.pc = "done"
        /\ Len(tk.requests) = 2
        /\ tk.outcomes = <<"no_providers", "ok">>
        /\ tk.results[1] = EmptyBuffer
        /\ tk.results[2].kind = "audio"
        /\ tk.results[2].request = tk.requests[2]

\* the run of initialize() that the task awaited saw one provider fail and
\* the other succeed
MixedOutcome(tk) ==
    \/ tk.el = "fail" /\ tk.oa = "ok"
    \/ tk.el = "ok" /\ tk.oa = "fail"

\* C9: a run of initialize() in which one provider failed and the other
\* succeeded does not throw and leaves the engine initialized; a provider
\* whose initialize() never succeeded is not in the provider set and is not
\* selected for any request.
C9_PartialInitTolerated ==
    /\ \A t \in Tasks :
          MixedOutcome(tasks[t]) =>
              /\ tasks[t].status # "no_providers"
              /\ initialized
    /\ \A p \in ProviderNames \ initOk :
          /\ providers[p] = 0
          /\ \A t \in Tasks : tasks[t].sel # p

\* elevenlabs was configured and failed to initialize, the engine is
\* initialized with openai alone, and a request that names elevenlabs is
\* being spoken by openai
C9_Witness ==
    /\ configured = ProviderNames
    /\ initRuns["elevenlabs"] = 1
    /\ "elevenlabs" \notin initOk
    /\ initialized
    /\ providers["elevenlabs"] = 0
    /\ \E t \in Tasks :
          /\ tasks[t].pc = "await_speech"
          /\ tasks[t].requests[1].provider = "elevenlabs"
          /\ tasks[t].sel = "openai"

\* the request whose generateVoice call the task is in
CurrentRequest(tk) == tk.requests[tk.i]

\* C10 (as claimed): a request that carries a provider id is dispatched to
\* the provider with that id and to no other.
C10_PreResolvedProviderUsed ==
    \A t \in Tasks :
        (tasks[t].pc = "await_speech"
            /\ CurrentRequest(tasks[t]).provider # "none") =>
                tasks[t].sel = CurrentRequest(tasks[t]).provider

\* C10 (amended): a request that carries the id of a provider that is
\* registered when the provider is selected is dispatched to that provider,
\* with or without emotion; the provider selected is a registered one.
C10_RegisteredProviderUsed ==
    [][\A t \in Tasks :
          (tasks[t].pc = "ready" /\ tasks'[t].pc = "await_speech") =>
              LET req == CurrentRequest(tasks'[t])
              IN  /\ Registered(providers, tasks'[t].sel)
                  /\ (req.provider # "none" /\ Registered(providers, req.provider))
                        => tasks'[t].sel = req.provider]_vars

\* with both providers registered, a request that names openai and needs
\* emotion control is being spoken by openai
C10_Witness ==
    /\ \A p \in ProviderNames : providers[p] = 1
    /\ \E t \in Tasks :
          /\ tasks[t].pc = "await_speech"
          /\ CurrentRequest(tasks[t]) = Request("openai", TRUE, 0)
          /\ tasks[t].sel = "openai"

\* ------------------------------------------------------------------ C11

\* C11 (as claimed): every request eventually completes, also when a provider
\* call never responds: a generateBatch call that was made ends.
C11_EveryRequestCompletes ==
    (tasks[1].op = "generateBatch") ~> (tasks[1].pc = "done")

\* ------------------------------------------------- C12, C13, C14, C15, C16

\* a keyframe without the reference to its transition
Bare(keyframe) ==
    [time |-> keyframe.time, emotion |-> keyframe.emotion,
     intensity |-> keyframe.intensity, starts |-> keyframe.transition # 0]

\* C12 (as claimed): a transition that fails validateTransition contributes
\* no keyframe, and the timeline is the one built from the transitions that
\* pass.
C12_InvalidTransitionsDropped ==
    timeline # <<>> =>
        /\ \A k \in 1..Len(timeline) :
              timeline[k].transition # 0 =>
                  ValidateTransition(transitions[timeline[k].transition])
        /\ LET passing == SelectSeq(transitions, ValidateTransition)
               expected == CreateEmotionTimeline(text, passing, defaultEmotion)
           IN  [k \in 1..Len(timeline) |-> Bare(timeline[k])]
                   = [k \in 1..Len(expected) |-> Bare(expected[k])]

\* C13 (as claimed): the keyframes of the timeline are in non-decreasing time
\* order, and the first keyframe is at time 0 with the default emotion and
\* intensity.
C13_SortedFromZero ==
    timeline # <<>> =>
        /\ \A k \in 1..(Len(timeline) - 1) : timeline[k].time <= timeline[k + 1].time
        /\ timeline[1] = Keyframe(0, defaultEmotion.type, defaultEmotion.intensity, 0)

\* the trigger fields in their order of precedence
TriggerFields == <<"time", "word", "position", "marker">>

Populated(trigger, field) ==
    CASE field = "time" -> trigger.time # Undefined
      [] field = "word" -> trigger.word # NoString
      [] field = "position" -> trigger.position # Undefined
      [] field = "marker" -> trigger.marker # NoString

\* the time that one trigger field stands for, -1 when it is not found
FieldTime(txt, trigger, field) ==
    CASE field = "time" -> trigger.time
      [] field = "word" ->
            IF IndexOf(txt, trigger.word) >= 0
            THEN CharTime(IndexOf(txt, trigger.word)) ELSE -1
      [] field = "position" -> CharTime(trigger.position)
      [] field = "marker" ->
            IF MarkerIndex(txt, trigger.marker) >= 0
            THEN CharTime(MarkerIndex(txt, trigger.marker)) ELSE -1

\* the time of the first field of TriggerFields that satisfies Use, else -1
FirstFieldTime(txt, trigger, Use(_)) ==
    LET used == {f \in 1..Len(TriggerFields) : Use(TriggerFields[f])}
    IN  IF used = {} THEN -1
        ELSE FieldTime(txt, trigger,
                       TriggerFields[CHOOSE f \in used : \A g \in used : f <= g])

\* the trigger time the timeline shows for transition k: the time of the
\* keyframe that starts it, -1 when the transition has no keyframe
ShownTriggerTime(k) ==
    IF \E j \in 1..Len(timeline) : timeline[j].transition = k
    THEN timeline[CHOOSE j \in 1..Len(timeline) : timeline[j].transition = k].time
    ELSE -1

\* C14 (as claimed): the trigger time of a transition is derived from its
\* highest-precedence populated field only (time > word > position > marker).
C14_HighestPopulatedField ==
    timeline # <<>> =>
        \A k \in 1..Len(transitions) :
            LET trigger == transitions[k].triggers
                Use(field) == Populated(trigger, field)
            IN  ShownTriggerTime(k) = FirstFieldTime(text, trigger, Use)

\* C14 (amended): the trigger time of a transition is derived from the
\* highest-precedence field that is populated and found in the text (a time
\* and a position are always found); a word or a marker that is not in the
\* text passes the turn to the next populated field.
C14_HighestResolvingField ==
    timeline # <<>> =>
        \A k \in 1..Len(transitions) :
            LET trigger == transitions[k].triggers
                Use(field) == /\ Populated(trigger, field)
                              /\ FieldTime(text, trigger, field) >= 0
            IN  ShownTriggerTime(k) = FirstFieldTime(text, trigger, Use)

\* a transition with a word found in the text, a position and a marker (and
\* no time) got the time of the word, which is not the time of the position
C14_Witness ==
    /\ timeline # <<>>
    /\ Len(transitions) = 1
    /\ LET trigger == transitions[1].triggers
       IN  /\ trigger.time = Undefined
           /\ trigger.word = "always"
           /\ trigger.position = 9
           /\ trigger.marker = "X"
           /\ IndexOf(text, "always") = 6
           /\ ShownTriggerTime(1) = 400

\* the keyframes that may be called the left keyframe of the interval that
\* holds the time: both ends of an interval count, and the last keyframe
\* stands for every time from its own on
LeftKeyframes(time) ==
    {k \in 1..Len(timeline) :
        /\ timeline[k].time <= time
        /\ k < Len(timeline) => time <= timeline[k + 1].time}

\* the segment is what the keyframe k makes of its start time
FromInterval(segment, k) ==
    LET keyframe == timeline[k]
        time == segment.startTime
    IN  IF InWindow(keyframe, transitions, time)
        THEN LET transition == transitions[keyframe.transition]
             IN  /\ segment.isTransition
                 /\ segment.transitionData.fromEmotion = transition.fromEmotion
                 /\ segment.transitionData.toEmotion = transition.toEmotion
                 /\ segment.transitionData.progress =
                       Divide(time - keyframe.time, transition.duration)
                 /\ segment.emotion = InterpolateEmotion(keyframe, time, transition)
        ELSE /\ ~segment.isTransition
             /\ segment.emotion = Emotion(keyframe.emotion, keyframe.intensity)

\* C15 (as claimed): the transition flag, the progress and the emotion of
\* every segment come from one interval of the timeline, the one that holds
\* the segment's start time.
C15_SegmentFromOneInterval ==
    \A n \in 1..Len(emotionSegments) :
        \E k \in LeftKeyframes(emotionSegments[n].startTime) :
            FromInterval(emotionSegments[n], k)

\* C16 (as claimed): the intensity of every segment lies in [0, 1], and the
\* progress of every transition segment is a number in [0, 1].
C16_IntensityAndProgressInRange ==
    \A n \in 1..Len(emotionSegments) :
        LET segment == emotionSegments[n]
        IN  /\ Leq(Whole(0), segment.emotion.intensity)
            /\ Leq(segment.emotion.intensity, Whole(1))
            /\ segment.isTransition =>
                  /\ Leq(Whole(0), segment.transitionData.progress)
                  /\ Leq(segment.transitionData.progress, Whole(1))


\* -------------------------------------------------------------------- C17

\* C17 (as claimed): once processDialogueTiming has timed every line, each
\* line starts at 0 or later and ends no earlier than it starts, the lines
\* whose start the overlap branch has overridden included.
C17_StartBeforeEnd ==
    TimingDone =>
        \A i \in 1..Len(processed) :
            /\ processed[i].startTime >= 0
            /\ processed[i].endTime >= processed[i].startTime

\* ---------------------------------------------------------- C18, C19, C20

\* C18 (as claimed): every sample of the master buffer that mixConversation
\* returns has an absolute value of at most 32767.
C18_MagnitudeAtMost32767 ==
    MixerDone =>
        \A k \in 1..Len(finalBuffer) : Abs(finalBuffer[k]) <= Int16Max

\* C18 (amended): every sample of the mix buffer and of the master buffer
\* that mixConversation returns lies in the 16-bit range [-32768, 32767]; the
\* magnitude 32768 occurs, on the negative side only.
C18_SamplesInInt16Range ==
    /\ \A k \in 1..Len(mixBuffer) :
          Int16Min <= mixBuffer[k] /\ mixBuffer[k] <= Int16Max
    /\ \A k \in 1..Len(finalBuffer) :
          Int16Min <= finalBuffer[k] /\ finalBuffer[k] <= Int16Max

\* two segments of -20000 that start at the same sample have been mixed at
\* full volume: their sum saturates and the master is returned with -32768
C18_Witness ==
    /\ MixerDone
    /\ mixedSegments = 2
    /\ \A n \in 1..2 :
          /\ SegmentsInOrder(tracks)[n].segment.startTime = 0
          /\ SegmentsInOrder(tracks)[n].segment.audioBuffer[1] = -20000
    /\ finalBuffer[1] = Int16Min

\* C19 (as claimed): normalization of a mix with peak > 0 multiplies every
\* sample by min(1, 32767 * 0.95 / peak): a mix whose peak is at most 95% of
\* full scale comes out unchanged, a louder one is scaled down, and no
\* sample's magnitude grows.
C19_NormalizationGainAtMostOne ==
    (mpc = "normalized" /\ options.normalizeAudio /\ Peak(mixBuffer) > 0) =>
        /\ 20 * Peak(mixBuffer) <= 19 * Int16Max => finalBuffer = mixBuffer
        /\ \A k \in 1..Len(mixBuffer) :
              /\ Abs(finalBuffer[k]) <= Abs(mixBuffer[k])
              /\ 20 * Peak(mixBuffer) > 19 * Int16Max =>
                    finalBuffer[k] =
                        ClampInt16(NormalizedSample(mixBuffer[k], Peak(mixBuffer)))

\* the overlap_start events of the character of the segment mixed last that
\* fall within that segment
HitsOfLastSegment ==
    LET last == SegmentsInOrder(tracks)[mixedSegments]
    IN  {n \in 1..Len(mixTimeline.events) :
            /\ mixTimeline.events[n].type = "overlap_start"
            /\ mixTimeline.events[n].characterId = last.characterId
            /\ last.segment.startTime <= mixTimeline.events[n].time
            /\ mixTimeline.events[n].time <= last.segment.endTime}

\* C20 (as claimed): a segment is mixed at gain 1 unless an overlap_start
\* event of its character falls within it, and then at exactly
\* 1 - volumeReduction, for every volumeReduction in [0, 1], 0 and 1 included.
C20_GainIsOneMinusAttenuation ==
    mixedSegments >= 1 =>
        IF HitsOfLastSegment = {} THEN volume = Whole(1)
        ELSE \A n \in HitsOfLastSegment :
                ~IsNaN(mixTimeline.events[n].volumeReduction) =>
                    volume = Minus(Whole(1), mixTimeline.events[n].volumeReduction)

\* -------------------------------------------------------------------- C21

\* C21 (as claimed): generateConversation with a plan that has characters
\* but no dialogue line does not fail: it returns a result.
C21_EmptyPlanReturnsResult ==
    (cpc = "returned" /\ Len(request.characters) > 0 /\ Len(request.dialogue) = 0) =>
        result.status # "rejected"

\* ---------------------------------------------------------- C22, C23, C24

\* the file with its cue identifier lines taken out
WithoutIdentifiers(file) == SelectSeq(file, LAMBDA line : line.kind # "id")

\* C22 (as claimed): the entries parsed from a VTT file are those of the same
\* file with all its cue identifiers removed: an identifier line is in no
\* entry's text and creates no entry.
C22_CueIdentifiersIgnored ==
    (format = "vtt" /\ spc = "done") =>
        entries = ParseVTT(WithoutIdentifiers(content))

\* C23 (as claimed): a track parsed from SRT, emitted as SRT and parsed
\* again has as many entries, each with the same index, the same text and
\* start and end times within 1 ms of the first parse.
C23_SRTRoundTrip ==
    (format = "srt" /\ spc = "done") =>
        /\ Len(entries) = Len(sourceEntries)
        /\ \A k \in 1..Len(entries) :
              /\ entries[k].index = sourceEntries[k].index
              /\ entries[k].text = sourceEntries[k].text
              /\ Abs(entries[k].startTime - sourceEntries[k].startTime) <= 1
              /\ Abs(entries[k].endTime - sourceEntries[k].endTime) <= 1

\* the closed emotion vocabulary
EmotionVocabulary ==
    {"happy", "sad", "angry", "excited", "calm", "fearful", "surprised", "neutral"}

\* parseSRT has gone through the file as it was given, and every block of
\* it made an entry
FirstParseComplete ==
    /\ format = "srt"
    /\ spc = "parsing"
    /\ subPos > Len(Blocks(content))
    /\ Len(entries) = Len(Blocks(content))

\* C24 (as claimed): an entry's emotion is the name of a bracketed tag of its
\* text that belongs to the closed vocabulary, and a bracketed tag with any
\* other name sets no emotion and stays in the entry's text.
C24_OnlyVocabularyTagsExtracted ==
    FirstParseComplete =>
        \A k \in 1..Len(entries) :
            LET block == Blocks(content)[k]
                raw == JoinLines(SubSeq(block, 3, Len(block)))
                tags == {raw[j] : j \in {j \in 1..Len(raw) : IsLetterTag(raw[j])}}
            IN  /\ entries[k].emotion # NoEmotion =>
                      /\ entries[k].emotion \in EmotionVocabulary
                      /\ \E tag \in tags : TagName(tag) = entries[k].emotion
                /\ \A tag \in tags :
                      TagName(tag) \notin EmotionVocabulary =>
                          \E j \in 1..Len(entries[k].text) : entries[k].text[j] = tag

\* the words of a string, split at the spaces
RECURSIVE WordsFrom(_, _)
WordsFrom(s, current) ==
    IF Len(s) = 0 THEN {current}
    ELSE IF SubSeq(s, 1, 1) = " " THEN {current} \cup WordsFrom(SubSeq(s, 2, Len(s)), "")
    ELSE WordsFrom(SubSeq(s, 2, Len(s)), current \o SubSeq(s, 1, 1))

WordsOf(s) == WordsFrom(s, "") \ {""}

\* C25 (as claimed): a prompt that has the word female and neither the word
\* male nor the word man is parsed with gender female, whatever its other
\* words are
C25_FemaleSuppressesMale ==
    (/\ ppc = "returned"
     /\ "female" \in WordsOf(ToLowerCase(prompt))
     /\ WordsOf(ToLowerCase(prompt)) \cap {"male", "man"} = {}) =>
        characteristics.gender = "female"

\* the groups of a table that have a keyword in the prompt, by position
MatchingGroups(groups, lowerPrompt) ==
    {k \in 1..Len(groups) : IncludesSome(lowerPrompt, groups[k].keywords)}

\* the value of the first matching group in table order wins the field
FirstGroupWins(groups, lowerPrompt, value) ==
    Cardinality(MatchingGroups(groups, lowerPrompt)) > 1 =>
        \E k \in MatchingGroups(groups, lowerPrompt) :
            /\ \A j \in MatchingGroups(groups, lowerPrompt) : k <= j
            /\ value = groups[k].name

\* C26 (as claimed): when a prompt holds keywords of several synonym groups
\* of accent, age, timbre or pace, the field is that of the first of these
\* groups in table order, wherever the keywords stand in the prompt
C26_FirstMatchingGroupWins ==
    ppc = "returned" =>
        /\ FirstGroupWins(Accents, ToLowerCase(prompt), characteristics.accent)
        /\ FirstGroupWins(AgeGroups, ToLowerCase(prompt), characteristics.age)
        /\ FirstGroupWins(TimbreGroups, ToLowerCase(prompt), characteristics.timbre)
        /\ FirstGroupWins(PaceGroups, ToLowerCase(prompt), characteristics.pace)


\* C27 (as claimed): the second call on the same dialogue array gives every
\* line the start and end time the first call gave it
C27_SecondRunSameTimes ==
    (run = 2 /\ idx = Len(processed) + 1) =>
        \A k \in 1..Len(processed) :
            /\ processed[k].startTime = firstRun[k].startTime
            /\ processed[k].endTime = firstRun[k].endTime


\* the operations that register a character under the id they were given
Registering ==
    {"addCharacter", "createCharacterFromDescription", "createCharacterFromTemplate",
     "cloneCharacter"}

\* C28 (as claimed): whatever operation was called last, a character that
\* was registered before it is still the character under its id, unless the
\* operation was clear(); and an operation that would register a character
\* under an id in use throws and leaves the Map as it was
C28_RegisteredNeverReplaced ==
    /\ lastOp.op # "clear" =>
          \A id \in DOMAIN previous :
              /\ id \in DOMAIN characterMap
              /\ characterMap[id].made = previous[id].made
    /\ (lastOp.op \in Registering /\ lastOp.inUse) =>
          (lastOp.threw /\ characterMap = previous)


\* C29 (as claimed): with two process() calls on one processor, every call
\* returns, and returns the processed form of the buffer it was handed
C29_CallsDoNotInterfere ==
    \A j \in DOMAIN jobs :
        jobs[j].pc = "done" =>
            /\ jobs[j].outcome = "returned"
            /\ jobs[j].processedBuffer = Processed(j, jobs[j].format)


\* C30 (as claimed): for a script in which the parser finds a line, every
\* line of the plan names a character generateFromScript created, and the
\* call gets to synthesis instead of rejecting
C30_ScriptPlanAccepted ==
    (gpc = "called" /\ Len(ParseScript(script).lines) > 0) =>
        /\ \A k \in 1..Len(request.dialogue) :
              request.dialogue[k].characterId \in Range(request.characters)
        /\ result.status # "rejected"


=========================================================================
